---- MODULE Spec2Model ----
(***************************************************************************)
(* A model of github.com/ottotech/paginate.                                *)
(*                                                                         *)
(* Part I   the row buffer and scan protocol of the paginator              *)
(*          (GetRowPtrArgs / addRow / NextData / Scan / Response).         *)
(* Part II  the query builder: getParameters, createWhereClause,           *)
(*          createPaginationClause, createOrderByClause, AddWhereClause    *)
(*          and Paginate.                                                  *)
(*                                                                         *)
(* Strings that the code inspects character by character are sequences of  *)
(* symbols; a symbol is a one-character string or an identifier word.      *)
(***************************************************************************)
EXTENDS Integers, Sequences, FiniteSets, TLC

(***************************************************************************)
(* Bounds of the model.                                                    *)
(***************************************************************************)
\* the number of GetRowPtrArgs calls that hand out scan destinations
MaxRows == 3
\* the largest count(*) over() value the driver writes into totalSize
MaxTotal == 1
\* the number of tokens in the query string of a request
MaxTokens == 3
\* the number of raw where clauses added to a paginator
MaxPredicates == 2
\* the number of OrderByAsc / OrderByDesc options given to NewPaginator
MaxOptions == 2
\* the largest absolute value of the integers given to createPaginationClause
MaxPage == 3
\* the largest count(*) over() value of the runs that call Response
MaxSize == 3
\* the number of characters that follow the column name in a token
MaxRest == 3
\* the width in bits of int and uint (64 in the usual builds; the model
\* keeps the two's complement arithmetic at a width it can enumerate)
IntBits == 8

(***************************************************************************)
(* Program constants.                                                      *)
(***************************************************************************)
defaultPageSize == 30
defaultPageNumber == 1

(***************************************************************************)
(* The table struct of the row buffer: its field names, the zero value of  *)
(* a field and the values a driver may scan into a field.                  *)
(***************************************************************************)
fields == <<"Name">>
Zero == ""
FieldValues == {Zero, "x"}
\* the last scan destination is always a pointer to p.totalSize
TotalSizePtr == "&totalSize"
\* what a caller may pass to Scan as dest
Dests == {"nil", "notPtr", "otherType", "nonZero", "zero"}

VARIABLES
    \* ---- fields of the paginator struct
    tmp,          \* p.tmp: the pending scan destinations, <<>> when none
    rows,         \* p.rows: the queue of completed rows
    stop,         \* p.stop
    closed,       \* p.closed
    started,      \* p.started
    onceDone,     \* p.once has run its function
    pageCount,    \* p.pageCount
    totalSize,    \* p.totalSize
    pageNumber,   \* p.pageNumber
    pageSize,     \* p.pageSize
    response,     \* p.response
    dialect,      \* p.dialect
    id,           \* p.id
    parameters,   \* p.parameters
    predicates,   \* p.predicates
    orderBy,      \* p.orderBy: the explicit ORDER BY options, cleaned
    name,         \* p.name: the table name
    cols,         \* p.cols: the column names
    filters,      \* p.filters: the names that can be filtered
    \* ---- the caller
    held,         \* the destinations the caller holds: "none", "live" (they
                  \* are p.tmp) or "stale" (p.tmp was flushed meanwhile)
    lastOp,       \* the last method called
    lastRet,      \* what it returned
    lastDest,     \* the dest of the last Scan call
    lastClause,   \* the clause of the last AddWhereClause call
    request,      \* the tokens of the request url given to NewPaginator
    options,      \* the OrderByAsc / OrderByDesc options given to it
    given,        \* the TableName and PageSize options given to it
    table,        \* the table given to it
    built,        \* the Paginator and the error it returned
    paginated,    \* what the last Paginate call returned
    \* ---- a Paginate call in progress: the caller and its three goroutines
    main,         \* the caller: "idle", or the channel it waits to receive
                  \* from ("c1", "c2", "c3"), or "crashed" with the program
    routines,     \* per builder goroutine: "none", "running", "sending"
                  \* (blocked on its channel), "done" or "panicked"
    chans,        \* per channel: the value its blocked sender offers
    received,     \* per channel: the value the caller received
    sends,        \* per channel: the sends completed during the call
    \* ---- history of the run
    filled,       \* per GetRowPtrArgs call that returned destinations, the
                  \* row the driver scanned into them
    delivered,    \* the rows copied into the dest of successful Scan calls
    proto,        \* position in the documented protocol: "fill", then the
                  \* drain loop "test"/"body", then "ended"; "off" otherwise
    loopN,        \* the rows buffered when the drain loop started
    iters,        \* iterations of the drain loop (Scan calls in its body)
    errIter,      \* the iteration whose Scan first returned an error, or 0
    loopZero,     \* every Scan of the drain loop got a zero-valued dest
    scanFailed,   \* some Scan call has returned an error
    drained       \* some NextData or Scan call has been made

bufVars == <<tmp, rows, stop, closed, started, onceDone, pageCount, totalSize,
             pageNumber, pageSize, response>>
sqlVars == <<dialect, id, parameters, predicates, orderBy, name, cols, filters>>
callVars == <<held, lastOp, lastRet, lastDest, lastClause>>
reqVars == <<request, options, given, table, built>>
histVars == <<filled, delivered, proto, loopN, iters, errIter, loopZero,
              scanFailed, drained>>
goVars == <<main, routines, chans, received, sends>>
vars == <<bufVars, sqlVars, callVars, reqVars, paginated, histVars, goVars>>

(***************************************************************************)
(* Part I: the row buffer.                                                 *)
(***************************************************************************)

\* The destinations GetRowPtrArgs prepares: one zero-valued slot per field
\* and the trailing pointer to p.totalSize.
newTmp == [i \in 1..Len(fields) |-> Zero] \o <<TotalSizePtr>>

\* The row addRow builds from the destinations: every slot but the last.
rowOf(t) == [i \in 1..(Len(t) - 1) |-> t[i]]

\* addRow, mutated: the new row is put at the head of the queue.
addRowAtHead(r, t) == <<rowOf(t)>> \o r

\* addRow: the rows after the destinations t are folded into a row that is
\* appended to r (p.tmp is cleared by the caller of this operator).
addRow(r, t) == Append(r, rowOf(t))

\* flush, mutated: the pending destinations are dropped, not folded.
flushLosingRow(r, t) == r

\* p.rows after the "if len(p.tmp) > 0 { p.addRow() }" of the three callers
flush(r, t) == IF Len(t) > 0 THEN addRow(r, t) ELSE r

\* the caller's destinations go stale when p.tmp is flushed under them
heldAfterFlush == IF held = "live" /\ Len(tmp) > 0 THEN "stale" ELSE held

\* The history variables after a call of op that returned ret; dest is
\* the argument of the call, "-" when it has none.
History(op, ret, dest) ==
    /\ built.paginator = "p"
    /\ proto' =
         CASE op \in {"GetRowPtrArgs", "DriverScan"} ->
                IF proto \in {"fill", "ended"} THEN proto ELSE "off"
           [] op = "NextData" ->
                IF proto \in {"fill", "test"}
                THEN (IF ret = "true" THEN "body" ELSE "ended")
                ELSE IF proto = "ended" THEN "ended" ELSE "off"
           [] op = "Scan" ->
                IF proto = "body" THEN "test"
                ELSE IF proto = "ended" THEN "ended" ELSE "off"
           [] OTHER -> proto
    /\ loopN' = IF op = "NextData" /\ proto = "fill" THEN Len(filled) ELSE loopN
    /\ iters' = IF op = "Scan" /\ proto = "body" THEN iters + 1 ELSE iters
    /\ errIter' = IF op = "Scan" /\ proto = "body" /\ ret # "nil" /\ errIter = 0
                  THEN iters + 1 ELSE errIter
    /\ loopZero' = IF op = "Scan" /\ proto = "body" /\ dest # "zero"
                   THEN FALSE ELSE loopZero
    /\ scanFailed' = (scanFailed \/ (op = "Scan" /\ ret # "nil"))
    /\ drained' = (drained \/ op \in {"NextData", "Scan"})
    /\ lastOp' = op
    /\ lastRet' = ret
    /\ lastDest' = IF op = "AddWhereClause" THEN "-" ELSE dest
    /\ lastClause' = IF op = "AddWhereClause" THEN dest ELSE lastClause

\* A call of a row-buffer method: the history is kept and the query
\* builder's fields are left alone.
BufferCall(op, ret, dest) ==
    /\ History(op, ret, dest)
    /\ UNCHANGED <<sqlVars, reqVars, paginated, goVars>>

\* GetRowPtrArgs, mutated: the started check is missing.
GetRowPtrArgsReturnsNilNever(s) == FALSE

\* GetRowPtrArgs returns nil, and does nothing, once consumption has started.
GetRowPtrArgsReturnsNil(s) == s

GetRowPtrArgs ==
    IF GetRowPtrArgsReturnsNil(started)
    THEN /\ BufferCall("GetRowPtrArgs", "nil", "-")
         /\ UNCHANGED <<bufVars, held, filled, delivered>>
    ELSE /\ Len(filled) < MaxRows
         /\ rows' = flush(rows, tmp)
         /\ tmp' = newTmp
         /\ held' = "live"
         /\ filled' = Append(filled, rowOf(newTmp))
         /\ BufferCall("GetRowPtrArgs", "args", "-")
         /\ UNCHANGED <<stop, closed, started, onceDone, pageCount, totalSize,
                        pageNumber, pageSize, response, delivered>>

\* The driver's rows.Scan writes a row and the total through the pointers
\* the caller got from the last GetRowPtrArgs call.
DriverScan(row, total) ==
    /\ held # "none"
    /\ held' = "none"
    /\ totalSize' = total
    /\ IF held = "live"
       THEN /\ tmp' = row \o <<TotalSizePtr>>
            /\ filled' = [filled EXCEPT ![Len(filled)] = row]
       ELSE UNCHANGED <<tmp, filled>>
    /\ BufferCall("DriverScan", "-", "-")
    /\ UNCHANGED <<rows, stop, closed, started, onceDone, pageCount,
                   pageNumber, pageSize, response, delivered>>

\* NextData's answer, mutated: the stop flag is not looked at.
NextDataResultIgnoringStop(st, cl, r) == IF cl THEN FALSE ELSE Len(r) > 0

\* NextData's answer once pending destinations are flushed into r.
NextDataResult(st, cl, r) == IF st \/ cl THEN FALSE ELSE Len(r) > 0

NextData ==
    LET r == flush(rows, tmp)
        ret == IF NextDataResult(stop, closed, r) THEN "true" ELSE "false"
    IN  /\ rows' = r
        /\ tmp' = <<>>
        /\ held' = heldAfterFlush
        /\ BufferCall("NextData", ret, "-")
        /\ UNCHANGED <<stop, closed, started, onceDone, pageCount, totalSize,
                       pageNumber, pageSize, response, filled, delivered>>

\* validateDest, mutated: the IsZero check of *dest is missing.
validateDestAnyValue(dest) ==
    CASE dest = "notPtr" -> "ErrNotPointer"
      [] dest = "otherType" -> "ErrWrongType"
      [] OTHER -> "nil"

\* The error validateDest returns for each kind of dest, "nil" when none.
validateDest(dest) ==
    CASE dest = "notPtr" -> "ErrNotPointer"
      [] dest = "otherType" -> "ErrWrongType"
      [] dest = "nonZero" -> "ErrNotZero"
      [] OTHER -> "nil"

\* The error Scan returns before it touches the rows, "nil" when none.
ScanError(dest) ==
    IF dest = "nil" THEN "ErrNilDest"
    ELSE IF closed THEN "ErrPaginatorIsClosed"
    ELSE IF validateDest(dest) # "nil" THEN validateDest(dest)
    ELSE IF Len(rows) = 0 THEN "ErrScanWithoutNextData"
    ELSE "nil"

\* once.Do, mutated: the page count is taken again at every Scan.
ScanPageCountEveryTime(done, pc, r) == Len(r)

\* p.pageCount after the once.Do of Scan, r being the rows it sees.
ScanPageCount(done, pc, r) == IF done THEN pc ELSE Len(r)

\* The copy of a row into *dest, field by field.
copyRow(row) == [i \in 1..Len(fields) |-> row[i]]

Scan(dest) ==
    LET err == ScanError(dest)
        r == IF onceDone THEN rows ELSE flush(rows, tmp)
    IN  IF err # "nil"
        THEN /\ stop' = TRUE
             /\ BufferCall("Scan", err, dest)
             /\ UNCHANGED <<tmp, rows, closed, started, onceDone, pageCount,
                            totalSize, pageNumber, pageSize, response, held,
                            filled, delivered>>
        ELSE /\ tmp' = IF onceDone THEN tmp ELSE <<>>
             /\ held' = IF onceDone THEN held ELSE heldAfterFlush
             /\ started' = TRUE
             /\ onceDone' = TRUE
             /\ pageCount' = ScanPageCount(onceDone, pageCount, r)
             /\ delivered' = Append(delivered, copyRow(Head(r)))
             /\ rows' = Tail(r)
             /\ closed' = (closed \/ Len(Tail(r)) = 0)
             /\ BufferCall("Scan", "nil", dest)
             /\ UNCHANGED <<stop, totalSize, pageNumber, pageSize, response,
                            filled>>

\* the largest and the smallest int, the largest uint
MaxInt == 2 ^ (IntBits - 1) - 1
MinInt == -(2 ^ (IntBits - 1))
MaxUint == 2 ^ IntBits - 1

\* the int a product or a sum of ints is: two's complement wrap-around
wrap(x) == ((x - MinInt) % (2 ^ IntBits)) + MinInt

\* Response fills p.response from the paginator's fields and returns it.
ResponseOf(resp, pn, ps, pc, ts) ==
    LET r1 == [resp EXCEPT !.PageNumber = pn, !.PageCount = pc,
                           !.TotalSize = ts]
        r2 == IF wrap(pn * ps) < ts
              THEN [r1 EXCEPT !.NextPageNumber = wrap(pn + 1),
                              !.HasNextPage = TRUE]
              ELSE r1
        r3 == IF wrap(pn * ps) = ts
              THEN [r2 EXCEPT !.NextPageNumber = 0, !.HasNextPage = FALSE]
              ELSE r2
        r4 == IF ts = 0
              THEN [r3 EXCEPT !.NextPageNumber = 0, !.HasNextPage = FALSE]
              ELSE r3
    IN  IF r4.PageNumber > 1 THEN [r4 EXCEPT !.HasPreviousPage = TRUE] ELSE r4

Response ==
    /\ response' = ResponseOf(response, pageNumber, pageSize, pageCount,
                              totalSize)
    /\ BufferCall("Response", "-", "-")
    /\ UNCHANGED <<tmp, rows, stop, closed, started, onceDone, pageCount,
                   totalSize, pageNumber, pageSize, held, filled, delivered>>

(***************************************************************************)
(* Part II: the query builder.                                             *)
(*                                                                         *)
(* A string is a sequence of symbols. The operators, the separators and    *)
(* the placeholders are symbols of their own, so that prefix tests,        *)
(* splitting, joining and formatting act on the text as the code does.     *)
(***************************************************************************)

eq == <<"=">>
gt == <<">">>
lt == <<"<">>
gte == <<">", "=">>
lte == <<"<", "=">>
ne == <<"<", ">">>
_in == <<"IN">>
_notin == <<"NOT IN">>

\* dialectPlaceholder: the placeholder of each supported dialect
dialectPlaceholder == [mysql |-> "?", postgres |-> "$%v"]

CheckIfDialectIsSupported(d) == d \in DOMAIN dialectPlaceholder

\* NewRawWhereClause: the clause and the error it returns
NewRawWhereClause(d) ==
    IF ~CheckIfDialectIsSupported(d)
    THEN [clause |-> [predicate |-> <<>>, args |-> <<>>, dialect |-> ""],
          err |-> "ErrDialectNotSupported"]
    ELSE [clause |-> [predicate |-> <<>>, args |-> <<>>, dialect |-> d],
          err |-> "nil"]

\* NewInnerJoinClause: the clause and the error it returns
NewInnerJoinClause(d) ==
    IF ~CheckIfDialectIsSupported(d)
    THEN [clause |-> [dialect |-> ""], err |-> "ErrDialectNotSupported"]
    ELSE [clause |-> [dialect |-> d], err |-> "nil"]

RECURSIVE Flatten(_)
\* the concatenation of a sequence of sequences
Flatten(ss) == IF ss = <<>> THEN <<>> ELSE Head(ss) \o Flatten(Tail(ss))

RECURSIVE Join(_, _)
\* strings.Join
Join(ss, sep) ==
    IF ss = <<>> THEN <<>>
    ELSE IF Len(ss) = 1 THEN ss[1]
    ELSE ss[1] \o sep \o Join(Tail(ss), sep)

\* strings.Index for a one-symbol separator, 0 when it does not occur
Index(s, c) ==
    IF \A i \in 1..Len(s) : s[i] # c THEN 0
    ELSE CHOOSE i \in 1..Len(s) : s[i] = c /\ \A j \in 1..(i - 1) : s[j] # c

RECURSIVE Split(_, _)
\* strings.Split on a one-symbol separator
Split(s, c) ==
    IF Index(s, c) = 0 THEN <<s>>
    ELSE <<SubSeq(s, 1, Index(s, c) - 1)>>
             \o Split(SubSeq(s, Index(s, c) + 1, Len(s)), c)

\* strings.Contains
Contains(s, sub) ==
    \E i \in 1..(Len(s) - Len(sub) + 1) : SubSeq(s, i, i + Len(sub) - 1) = sub

isStringIn(s, in) == \E i \in 1..Len(in) : in[i] = s

\* the closure getParameter of getParameters
getParameter(key, val, char) ==
    IF /\ Contains(val, char)
       /\ SubSeq(val, 1, Len(char)) = char
       /\ Len(val) > Len(char)
    THEN [ok |-> TRUE,
          p |-> [name |-> key, sign |-> char,
                 value |-> SubSeq(val, Len(char) + 1, Len(val))]]
    ELSE [ok |-> FALSE, p |-> [name |-> <<>>, sign |-> <<>>, value |-> <<>>]]

\* operatorOrder, mutated: the one-character operators are tried first
operatorOrderShortFirst == <<gt, lt, eq, gte, lte, ne>>

\* the order in which getParameters tries the operators on a token
operatorOrder == <<gte, lte, ne, gt, lt, eq>>

\* The parameters (none or one) that token p yields for column n.
tokenParameter(n, p, flt) ==
    IF Len(p) <= Len(n) THEN <<>>
    ELSE LET key == SubSeq(p, 1, Len(n))
             value == SubSeq(p, Len(n) + 1, Len(p))
             hits == SelectSeq(operatorOrder,
                               LAMBDA c : getParameter(key, value, c).ok)
         IN  IF key # n \/ ~isStringIn(key, flt) \/ hits = <<>> THEN <<>>
             ELSE <<getParameter(key, value, Head(hits)).p>>

\* The first loop of getParameters: columns outside, tokens inside.
extractParameters(colNames, flt, params) ==
    Flatten([i \in 1..Len(colNames) |->
        Flatten([j \in 1..Len(params) |->
            tokenParameter(colNames[i], params[j], flt)])])

\* list[i] has sign s and shares sign and name with another element
isDuplicated(list, i, s) ==
    /\ list[i].sign = s
    /\ \E j \in 1..Len(list) :
           j # i /\ list[j].sign = list[i].sign /\ list[j].name = list[i].name

\* the keys of the map eqDuplicates / notEqDuplicates
duplicateKeys(list, s) ==
    {list[i].name : i \in {j \in 1..Len(list) : isDuplicated(list, j, s)}}

RECURSIVE uniqueValues(_, _)
\* vs appended to acc, a value already in acc being skipped
uniqueValues(acc, vs) ==
    IF vs = <<>> THEN acc
    ELSE uniqueValues(IF isStringIn(Head(vs), acc) THEN acc
                      ELSE Append(acc, Head(vs)), Tail(vs))

\* the map entry of key k: the values of its duplicated parameters
duplicateValues(list, s, k) ==
    uniqueValues(<<>>,
        Flatten([i \in 1..Len(list) |->
            IF isDuplicated(list, i, s) /\ list[i].name = k
            THEN <<list[i].value>> ELSE <<>>]))

\* the value of a grouped parameter, mutated: only the first value is kept
groupedValueFirstOnly(vs) == Head(vs)

\* the value of a grouped parameter: strings.Join(v, ",")
groupedValue(vs) == Join(vs, <<",">>)

\* One grouping pass of getParameters for sign s: the parameters that are
\* not duplicated, then one parameter of sign grouped per map key, the keys
\* in the order keyOrder in which the map happens to be iterated.
groupDuplicates(list, s, grouped, keyOrder) ==
    Flatten([i \in 1..Len(list) |->
        IF isDuplicated(list, i, s) THEN <<>> ELSE <<list[i]>>])
    \o [k \in 1..Len(keyOrder) |->
          [name |-> keyOrder[k], sign |-> grouped,
           value |-> groupedValue(duplicateValues(list, s, keyOrder[k]))]]

\* the orders in which a map with the keys S can be iterated
iterationOrders(S) ==
    {o \in [1..Cardinality(S) -> S] :
         \A i, j \in 1..Cardinality(S) : i # j => o[i] # o[j]}

\* The last loop of getParameters: the sort parameters.
sortParameters(params) ==
    Flatten([j \in 1..Len(params) |->
        IF Len(params[j]) <= 1 THEN <<>>
        ELSE IF SubSeq(params[j], 1, 1) # <<"sort">> THEN <<>>
        ELSE IF getParameter(<<"sort">>, Tail(params[j]), eq).ok
             THEN <<getParameter(<<"sort">>, Tail(params[j]), eq).p>>
             ELSE <<>>])

\* getParameters: the lists it can return for the decoded url u, one per
\* iteration order of its two maps.
getParameters(colNames, flt, u) ==
    IF Index(u, "?") = 0 THEN {<<>>}
    ELSE LET params == Split(SubSeq(u, Index(u, "?") + 1, Len(u)), "&")
             list == extractParameters(colNames, flt, params)
         IN  UNION {
               { groupDuplicates(l1, ne, _notin, o2) \o sortParameters(params)
                   : o2 \in iterationOrders(duplicateKeys(l1, ne)) }
               : l1 \in { groupDuplicates(list, eq, _in, o1)
                            : o1 \in iterationOrders(duplicateKeys(list, eq)) } }

\* parameters.getParameter
getParameterByName(params, n) ==
    LET hits == SelectSeq(params, LAMBDA p : p.name = n)
    IN  IF hits = <<>> THEN [exists |-> FALSE, p |-> <<>>]
        ELSE [exists |-> TRUE, p |-> Head(hits)]

\* the values of an IN / NOT IN parameter: strings.Split(p.value, ",")
inValues(v) == Split(v, ",")

\* The fragment and the arguments createWhereClause makes of a parameter.
parameterClause(p, placeholder) ==
    IF p.sign \in {_in, _notin}
    THEN [clause |-> p.name \o <<" ">> \o p.sign \o <<"(">>
                       \o Join([i \in 1..Len(inValues(p.value)) |->
                                   <<placeholder>>], <<",">>)
                       \o <<")">>,
          args |-> inValues(p.value)]
    ELSE [clause |-> p.name \o <<" ">> \o p.sign \o <<" ">> \o <<placeholder>>,
          args |-> <<p.value>>]

\* parameterClauses, mutated: one loop over the parameters, in their order
parameterClausesInListOrder(colNames, params, placeholder) ==
    Flatten([j \in 1..Len(params) |->
        IF isStringIn(params[j].name, colNames)
        THEN <<parameterClause(params[j], placeholder)>> ELSE <<>>])

\* The fragments of the filter parameters: columns outside, parameters
\* inside.
parameterClauses(colNames, params, placeholder) ==
    Flatten([i \in 1..Len(colNames) |->
        Flatten([j \in 1..Len(params) |->
            IF params[j].name = colNames[i]
            THEN <<parameterClause(params[j], placeholder)>> ELSE <<>>])])

\* RawWhereClause.String
RawWhereClauseString(raw) ==
    IF raw.dialect = "postgres"
    THEN [i \in 1..Len(raw.predicate) |->
             IF raw.predicate[i] = "?" THEN "$%v" ELSE raw.predicate[i]]
    ELSE raw.predicate

\* The fragments of the raw predicates, in the order they were added.
predicateClauses(preds) ==
    [i \in 1..Len(preds) |->
        [clause |-> RawWhereClauseString(preds[i]), args |-> preds[i].args]]

createWhereClause(d, colNames, params, preds) ==
    LET parts == parameterClauses(colNames, params, dialectPlaceholder[d])
                     \o predicateClauses(preds)
        separator == IF Len(parts) = 1 THEN <<>> ELSE <<" AND ">>
    IN  [clause |-> <<" WHERE ">>
                       \o Join([i \in 1..Len(parts) |-> parts[i].clause],
                               separator),
         args |-> Flatten([i \in 1..Len(parts) |-> parts[i].args]),
         exists |-> Len(parts) > 0]

\* the conversion int(size) of a uint
toInt(size) == wrap(size)

\* createPaginationClause: LIMIT ps OFFSET offset
createPaginationClause(pn, ps) ==
    LET offset == IF pn < 0 \/ pn = 0 \/ pn = 1 THEN 0 ELSE wrap(ps * (pn - 1))
    IN  <<" LIMIT ", ToString(ps), " OFFSET ", ToString(offset)>>

\* orderBy cleaned: the options on the id column and the repeated columns
\* are dropped, the first option of a column being kept.
RECURSIVE Clean(_, _, _)
Clean(acc, o, skipId) ==
    IF o = <<>> THEN acc
    ELSE Clean(IF Head(o).column = skipId
                  \/ \E i \in 1..Len(acc) : acc[i].column = Head(o).column
               THEN acc ELSE Append(acc, Head(o)),
               Tail(o), skipId)

\* The term (none or one) a token v of the sort value adds to the clause.
sortTerms(v, colNames, idc) ==
    Flatten([i \in 1..Len(colNames) |->
        IF colNames[i] = idc \/ Tail(v) # colNames[i] THEN <<>>
        ELSE IF Head(v) = "+" THEN <<colNames[i] \o <<" ", "ASC">>>>
        ELSE IF Head(v) = "-" THEN <<colNames[i] \o <<" ", "DESC">>>>
        ELSE <<>>])

\* The terms of the explicit ORDER BY options.
optionTerms(o) == [i \in 1..Len(o) |-> o[i].column \o <<" ", o[i].sorting>>]

\* the terms of the clause, mutated: the id column is not appended
orderByTermsWithoutId(terms, idc) == terms

\* the terms of the clause: the id column is always the last one
orderByTerms(terms, idc) == Append(terms, idc)

\* createOrderByClause: the clause, or a panic when a token of the sort
\* value is empty (v[0] of an empty string).
createOrderByClause(params, colNames, o, idc) ==
    LET sort == getParameterByName(params, <<"sort">>)
        tokens == Split(sort.p.value, ",")
    IN  IF Len(o) > 0
        THEN [panic |-> FALSE,
              clause |-> <<" ORDER BY ">>
                            \o Join(orderByTerms(optionTerms(o), idc), <<",">>)]
        ELSE IF ~sort.exists
        THEN [panic |-> FALSE, clause |-> <<" ORDER BY ">> \o idc]
        ELSE IF \E k \in 1..Len(tokens) : tokens[k] = <<>>
        THEN [panic |-> TRUE, clause |-> <<>>]
        ELSE [panic |-> FALSE,
              clause |-> <<" ORDER BY ">>
                  \o Join(orderByTerms(
                             Flatten([k \in 1..Len(tokens) |->
                                 sortTerms(tokens[k], colNames, idc)]), idc),
                          <<",">>)]

RECURSIVE Sprintf(_, _, _)
\* fmt.Sprintf(s, 1, ..., n) for a text whose only verbs are the %v of the
\* "$%v" placeholders, k - 1 arguments being consumed already.
Sprintf(s, k, n) ==
    IF s = <<>> THEN (IF k <= n THEN <<"%!(EXTRA)">> ELSE <<>>)
    ELSE IF Head(s) = "$%v"
    THEN <<IF k <= n THEN "$" \o ToString(k) ELSE "$%!v(MISSING)">>
             \o Sprintf(Tail(s), k + 1, n)
    ELSE <<Head(s)>> \o Sprintf(Tail(s), k, n)

\* The statement Paginate assembles from the three clauses it received.
assemble(d, cs, nm, where, order, pagination) ==
    LET select == <<"SELECT ">> \o Join(cs, <<", ">>)
                      \o <<", count(*) over() FROM ">> \o nm
        s == IF where.exists
             THEN select \o where.clause \o order \o pagination
             ELSE select \o order \o pagination
    IN  [status |-> "ok",
         sql |-> IF where.exists /\ d = "postgres"
                 THEN Sprintf(s, 1, Len(where.args)) ELSE s,
         args |-> where.args]

\* What Paginate returns on a paginator with these fields: the three
\* clauses are built and assembled.
PaginateOf(d, cs, ps, preds, pn, psz, ob, i, nm) ==
    LET where == createWhereClause(d, cs, ps, preds)
        pagination == createPaginationClause(pn, psz)
        order == createOrderByClause(ps, cs, ob, i)
    IN  IF order.panic
        THEN [status |-> "panic", sql |-> <<>>, args |-> <<>>]
        ELSE assemble(d, cs, nm, where, order.clause, pagination)

\* What Paginate returns.
PaginateResult ==
    PaginateOf(dialect, cols, parameters, predicates, pageNumber, pageSize,
               orderBy, id, name)

Paginate ==
    /\ paginated' = PaginateResult
    /\ History("Paginate", PaginateResult.status, "-")
    /\ UNCHANGED <<bufVars, sqlVars, reqVars, held, filled, delivered, goVars>>

\* the number of ? in a predicate
occurrences(predicate) ==
    Cardinality({i \in 1..Len(predicate) : predicate[i] = "?"})

\* AddWhereClauseError without the check of the clause's dialect
AddWhereClauseErrorAnyDialect(clause) ==
    IF occurrences(clause.predicate) = 0 /\ Len(clause.args) > 0
    THEN "ErrArgsWithoutPlaceholders"
    ELSE IF /\ occurrences(clause.predicate) > 0
            /\ occurrences(clause.predicate) # Len(clause.args)
    THEN "ErrPlaceholdersAndArgsDiffer"
    ELSE "nil"

\* The error AddWhereClause returns, "nil" when it accepts the clause.
AddWhereClauseError(clause) ==
    IF occurrences(clause.predicate) = 0 /\ Len(clause.args) > 0
    THEN "ErrArgsWithoutPlaceholders"
    ELSE IF /\ occurrences(clause.predicate) > 0
            /\ occurrences(clause.predicate) # Len(clause.args)
    THEN "ErrPlaceholdersAndArgsDiffer"
    ELSE IF ~CheckIfDialectIsSupported(clause.dialect)
    THEN "ErrDialectNotSupported"
    ELSE "nil"

AddWhereClause(clause) ==
    /\ IF AddWhereClauseError(clause) = "nil"
       THEN /\ Len(predicates) < MaxPredicates
            /\ predicates' = Append(predicates, clause)
       ELSE UNCHANGED predicates
    /\ History("AddWhereClause", AddWhereClauseError(clause), clause)
    /\ UNCHANGED <<bufVars, dialect, id, parameters, orderBy, name, cols,
                   filters, reqVars, paginated, held, filled, delivered,
                   goVars>>

(***************************************************************************)
(* Part IV: Paginate step by step. The caller starts the three builders    *)
(* as goroutines, each with a channel of its own without buffer, and       *)
(* receives from c1, c2 and c3 in this order; a send completes when the    *)
(* caller receives it. A panic in a goroutine ends the program.            *)
(***************************************************************************)

notSpawned == [where |-> "none", pagination |-> "none", order |-> "none"]
noValues == [c1 |-> <<>>, c2 |-> <<>>, c3 |-> <<>>]
noSends == [c1 |-> 0, c2 |-> 0, c3 |-> 0]

\* the variables that no step of a Paginate call in progress writes
callerVars == <<bufVars, sqlVars, reqVars, callVars, histVars, paginated>>

\* Paginate is called: the channels are made and
\* go createWhereClause(..., c1) is executed.
GoCreateWhereClause ==
    /\ built.paginator = "p"
    /\ main = "idle"
    /\ main' = "go2"
    /\ routines' = [notSpawned EXCEPT !.where = "running"]
    /\ chans' = noValues
    /\ received' = noValues
    /\ sends' = noSends
    /\ UNCHANGED callerVars

\* go createPaginationClause(..., c2)
GoCreatePaginationClause ==
    /\ main = "go2"
    /\ main' = "go3"
    /\ routines' = [routines EXCEPT !.pagination = "running"]
    /\ UNCHANGED <<callerVars, chans, received, sends>>

\* go createOrderByClause(..., c3)
GoCreateOrderByClause ==
    /\ main = "go3"
    /\ main' = "c1"
    /\ routines' = [routines EXCEPT !.order = "running"]
    /\ UNCHANGED <<callerVars, chans, received, sends>>

\* The goroutine of createWhereClause builds its clause and reaches c <- w.
RunCreateWhereClause ==
    /\ main # "crashed"
    /\ routines.where = "running"
    /\ routines' = [routines EXCEPT !.where = "sending"]
    /\ chans' = [chans EXCEPT
                   !.c1 = <<createWhereClause(dialect, cols, parameters,
                                              predicates)>>]
    /\ UNCHANGED <<callerVars, main, received, sends>>

\* The goroutine of createPaginationClause reaches c <- clause.
RunCreatePaginationClause ==
    /\ main # "crashed"
    /\ routines.pagination = "running"
    /\ routines' = [routines EXCEPT !.pagination = "sending"]
    /\ chans' = [chans EXCEPT
                   !.c2 = <<createPaginationClause(pageNumber, pageSize)>>]
    /\ UNCHANGED <<callerVars, main, received, sends>>

\* The goroutine of createOrderByClause reaches its send, or panics on
\* v[0] of an empty token and takes the program down.
RunCreateOrderByClause ==
    /\ main # "crashed"
    /\ routines.order = "running"
    /\ LET order == createOrderByClause(parameters, cols, orderBy, id)
       IN  IF order.panic
           THEN /\ routines' = [routines EXCEPT !.order = "panicked"]
                /\ main' = "crashed"
                /\ UNCHANGED chans
           ELSE /\ routines' = [routines EXCEPT !.order = "sending"]
                /\ chans' = [chans EXCEPT !.c3 = <<order.clause>>]
                /\ UNCHANGED main
    /\ UNCHANGED <<callerVars, received, sends>>

\* where := <-c1
ReceiveC1 ==
    /\ main = "c1"
    /\ routines.where = "sending"
    /\ received' = [received EXCEPT !.c1 = chans.c1]
    /\ chans' = [chans EXCEPT !.c1 = <<>>]
    /\ sends' = [sends EXCEPT !.c1 = @ + 1]
    /\ routines' = [routines EXCEPT !.where = "done"]
    /\ main' = "c2"
    /\ UNCHANGED callerVars

\* pagination := <-c2
ReceiveC2 ==
    /\ main = "c2"
    /\ routines.pagination = "sending"
    /\ received' = [received EXCEPT !.c2 = chans.c2]
    /\ chans' = [chans EXCEPT !.c2 = <<>>]
    /\ sends' = [sends EXCEPT !.c2 = @ + 1]
    /\ routines' = [routines EXCEPT !.pagination = "done"]
    /\ main' = "c3"
    /\ UNCHANGED callerVars

\* order := <-c3, then the statement is assembled and Paginate returns.
ReceiveC3 ==
    /\ main = "c3"
    /\ routines.order = "sending"
    /\ received' = [received EXCEPT !.c3 = chans.c3]
    /\ chans' = [chans EXCEPT !.c3 = <<>>]
    /\ sends' = [sends EXCEPT !.c3 = @ + 1]
    /\ routines' = [routines EXCEPT !.order = "done"]
    /\ main' = "idle"
    /\ paginated' = assemble(dialect, cols, name, received.c1[1],
                             chans.c3[1], received.c2[1])
    /\ History("Paginate", "ok", "-")
    /\ UNCHANGED <<bufVars, sqlVars, reqVars, held, filled, delivered>>

(***************************************************************************)
(* Construction. A request is a sequence of tokens name op value; the url  *)
(* handed to NewPaginator is the host followed by ? and the tokens joined   *)
(* with &.                                                                 *)
(***************************************************************************)

Dialects == DOMAIN dialectPlaceholder

\* the text of a token of the query string
tokenText(t) == t.name \o t.op \o t.value

\* the decoded url of a request
requestURL(req) ==
    IF req = <<>> THEN <<"host">>
    ELSE <<"host", "?">>
             \o Join([i \in 1..Len(req) |-> tokenText(req[i])], <<"&">>)

\* the sequences over S of length at most n
SeqsUpTo(S, n) == UNION {[1..k -> S] : k \in 0..n}

(***************************************************************************)
(* Part III  construction: the table struct, its validation and its        *)
(* introspection, the options and the page parameters of the request.      *)
(*                                                                         *)
(* A table is the reflect.Value of the first argument of NewPaginator: its  *)
(* kind, whether it is the zero value, the name of its type and, for a      *)
(* struct, its fields with their type and the tags of their paginate tag.   *)
(* A Go identifier is a sequence of characters, a tag a sequence of         *)
(* symbols.                                                                 *)
(***************************************************************************)

\* unicode.IsUpper / ToLower on the letters the model spells identifiers with
lowerOf == [A |-> "a", C |-> "c", D |-> "d", E |-> "e", F |-> "f", I |-> "i",
            M |-> "m", N |-> "n", S |-> "s", V |-> "v"]

IsUpper(c) == c \in DOMAIN lowerOf

ToLower(s) == [i \in 1..Len(s) |-> IF IsUpper(s[i]) THEN lowerOf[s[i]] ELSE s[i]]

RECURSIVE Concat(_)
\* the string spelled by a sequence of characters
Concat(s) == IF s = <<>> THEN "" ELSE Head(s) \o Concat(Tail(s))

RECURSIVE camelCasePieces(_, _, _)
\* The first loop of parseCamelCaseToSnakeLowerCase, from index i down to
\* 1: at every upper-case character the text from it to the end is cut off
\* and kept; rest is what is left of camelCase, s the pieces cut so far,
\* the last cut first.
camelCasePieces(rest, i, s) ==
    IF i = 0 THEN s
    ELSE IF IsUpper(rest[i])
    THEN camelCasePieces(SubSeq(rest, 1, i - 1), i - 1,
                         <<SubSeq(rest, i, Len(rest))>> \o s)
    ELSE camelCasePieces(rest, i - 1, s)

\* the pieces in the order of the identifier
orderedSlice(camelCase) == camelCasePieces(camelCase, Len(camelCase), <<>>)

\* parseCamelCaseToSnakeLowerCase: the name as a one-word text
parseCamelCaseToSnakeLowerCase(camelCase) ==
    << Concat(ToLower(Join(orderedSlice(camelCase), <<"_">>))) >>

\* the tags of a field: strings.Split(field.Tag.Get("paginate"), ";")
tagsOf(field) == field.tags

\* the closure countIDs of validateTable
countIDs(tags) == Cardinality({i \in 1..Len(tags) : tags[i] = <<"id">>})

\* the types validateTable accepts for a field
supportedTypes ==
    {"string", "int", "int8", "int16", "int32", "int64", "bool", "float32",
     "float64", "time.Time", "NullInt", "NullBool", "NullString", "NullTime",
     "NullFloat64"}

RECURSIVE sumOf(_)
sumOf(ns) == IF ns = <<>> THEN 0 ELSE Head(ns) + sumOf(Tail(ns))

\* The error validateTable returns, "nil" when the table is accepted.
validateTable(tbl) ==
    IF tbl.kind # "struct" THEN "ErrNotStruct"
    ELSE IF ~tbl.zero THEN "ErrNotZero"
    ELSE IF \E i \in 1..Len(tbl.fields) : tbl.fields[i].type \notin supportedTypes
    THEN "ErrInvalidType"
    ELSE LET numOfIDs == sumOf([i \in 1..Len(tbl.fields) |->
                                    countIDs(tagsOf(tbl.fields[i]))])
         IN  IF numOfIDs = 0 THEN "ErrNoID"
             ELSE IF numOfIDs > 1 THEN "ErrManyIDs"
             ELSE "nil"

\* the closure getColNameFromTags: the values of the well-formed col tags
colNamesFromTags(tags) ==
    Flatten([i \in 1..Len(tags) |->
        IF Len(Split(tags[i], "=")) = 2 /\ Split(tags[i], "=")[1] = <<"col">>
        THEN <<Split(tags[i], "=")[2]>> ELSE <<>>])

\* getColsAndMapParameters: the column of every field
getCols(tbl) ==
    [i \in 1..Len(tbl.fields) |->
        IF colNamesFromTags(tagsOf(tbl.fields[i])) # <<>>
        THEN Head(colNamesFromTags(tagsOf(tbl.fields[i])))
        ELSE parseCamelCaseToSnakeLowerCase(tbl.fields[i].fieldName)]

\* the closures hasfilter / hasID
hasTag(tags, t) == \E i \in 1..Len(tags) : tags[i] = t

\* getFilters
getFilters(tbl) ==
    Flatten([i \in 1..Len(tbl.fields) |->
        IF hasTag(tagsOf(tbl.fields[i]), <<"filter">>)
        THEN <<parseCamelCaseToSnakeLowerCase(tbl.fields[i].fieldName)>>
        ELSE <<>>])

\* getID
getID(tbl) ==
    LET ids == Flatten([i \in 1..Len(tbl.fields) |->
                   IF hasTag(tagsOf(tbl.fields[i]), <<"id">>)
                   THEN <<parseCamelCaseToSnakeLowerCase(tbl.fields[i].fieldName)>>
                   ELSE <<>>])
    IN  IF ids = <<>> THEN <<>> ELSE Head(ids)

\* getTableName
getTableName(tbl) == parseCamelCaseToSnakeLowerCase(tbl.typeName)

\* strings.TrimSpace on a text whose blanks are " " symbols
RECURSIVE TrimSpace(_)
TrimSpace(s) ==
    IF s = <<>> THEN s
    ELSE IF Head(s) = " " THEN TrimSpace(Tail(s))
    ELSE IF s[Len(s)] = " " THEN TrimSpace(SubSeq(s, 1, Len(s) - 1))
    ELSE s

digitOf ==
    [c \in {"0", "1", "2", "3", "4", "5", "6", "7", "8", "9"} |->
        CASE c = "0" -> 0 [] c = "1" -> 1 [] c = "2" -> 2 [] c = "3" -> 3
          [] c = "4" -> 4 [] c = "5" -> 5 [] c = "6" -> 6 [] c = "7" -> 7
          [] c = "8" -> 8 [] c = "9" -> 9]

RECURSIVE digitsValue(_, _)
\* the number spelled by digits ds, acc being the value of those read
digitsValue(ds, acc) ==
    IF ds = <<>> THEN acc ELSE digitsValue(Tail(ds), 10 * acc + digitOf[Head(ds)])

\* strconv.Atoi: an optional sign and decimal digits, within the range of
\* int; ok is FALSE when it returns an error
Atoi(s) ==
    LET signed == s # <<>> /\ Head(s) \in {"+", "-"}
        ds == IF signed THEN Tail(s) ELSE s
        wellFormed == ds # <<>> /\ \A i \in 1..Len(ds) : ds[i] \in DOMAIN digitOf
        n == IF ~wellFormed THEN 0
             ELSE IF signed /\ Head(s) = "-" THEN -digitsValue(ds, 0)
             ELSE digitsValue(ds, 0)
    IN  IF wellFormed /\ MinInt <= n /\ n <= MaxInt
        THEN [ok |-> TRUE, n |-> n] ELSE [ok |-> FALSE, n |-> 0]

\* url.Values.Get: the value of the first key=value token with that key,
\* <<>> when there is none
queryGet(req, key) ==
    LET hits == SelectSeq(req, LAMBDA t : t.name = key /\ t.op = eq)
    IN  IF hits = <<>> THEN <<>> ELSE Head(hits).value

\* one half of getRequestData: the parameter resolved against its default
requestNumber(v, default) ==
    IF v = <<>> THEN default
    ELSE IF ~Atoi(v).ok THEN default
    ELSE IF Atoi(v).n <= 0 THEN default
    ELSE Atoi(v).n

getRequestData(req) ==
    [pageNumber |-> requestNumber(queryGet(req, <<"page">>), defaultPageNumber),
     pageSize |-> requestNumber(queryGet(req, <<"page_size">>), defaultPageSize)]

\* optionsError for a TableName that does not trim its name
optionsErrorUntrimmed(gv) ==
    IF \E i \in 1..Len(gv.tableName) : gv.tableName[i] = <<>>
    THEN "ErrBlankTableName"
    ELSE IF \E i \in 1..Len(gv.pageSize) : gv.pageSize[i] = 0
    THEN "ErrPageSizeZero"
    ELSE "nil"

\* The error of the first option that fails, "nil" when all are applied:
\* TableName refuses a blank name, PageSize refuses 0.
optionsError(gv) ==
    IF \E i \in 1..Len(gv.tableName) : TrimSpace(gv.tableName[i]) = <<>>
    THEN "ErrBlankTableName"
    ELSE IF \E i \in 1..Len(gv.pageSize) : gv.pageSize[i] = 0
    THEN "ErrPageSizeZero"
    ELSE "nil"

\* What NewPaginator(tbl, d, url of req, options) returns and how it leaves
\* the paginator: gv holds the TableName and PageSize options, opts the
\* OrderByAsc / OrderByDesc options.
NewPaginatorResult(tbl, d, req, opts, gv) ==
    LET nm == IF gv.tableName # <<>>
              THEN TrimSpace(gv.tableName[Len(gv.tableName)])
              ELSE getTableName(tbl)
        optSize == IF gv.pageSize # <<>>
                   THEN toInt(gv.pageSize[Len(gv.pageSize)]) ELSE 0
        ps == IF optSize = 0 THEN getRequestData(req).pageSize ELSE optSize
        none == [err |-> "nil", paginator |-> "nil", name |-> <<>>,
                 pageNumber |-> 0, pageSize |-> 0, id |-> <<>>, cols |-> <<>>,
                 filters |-> <<>>, orderBy |-> <<>>,
                 parameterChoices |-> {<<>>}]
    IN  IF ~CheckIfDialectIsSupported(d)
        THEN [none EXCEPT !.err = "ErrDialectNotSupported"]
        ELSE IF optionsError(gv) # "nil"
        THEN [none EXCEPT !.err = optionsError(gv)]
        ELSE IF validateTable(tbl) # "nil"
        THEN [none EXCEPT !.err = validateTable(tbl), !.paginator = "p",
                          !.name = nm, !.pageSize = ps, !.orderBy = opts,
                          !.pageNumber = getRequestData(req).pageNumber]
        ELSE [err |-> "nil", paginator |-> "p", name |-> nm,
              pageNumber |-> getRequestData(req).pageNumber, pageSize |-> ps,
              id |-> getID(tbl), cols |-> getCols(tbl),
              filters |-> getFilters(tbl),
              orderBy |-> Clean(<<>>, opts, getID(tbl)),
              parameterChoices |->
                  getParameters(getCols(tbl), getFilters(tbl), requestURL(req))]

\* The zero value of PaginationResponse.
zeroResponse ==
    [PageNumber |-> 0, NextPageNumber |-> 0, HasNextPage |-> FALSE,
     HasPreviousPage |-> FALSE, PageCount |-> 0, TotalSize |-> 0]

\* no Paginate call has been made
notPaginated == [status |-> "none", sql |-> <<>>, args |-> <<>>]

\* The state in which a NewPaginator call with result r leaves the program.
paginatorOf(tbl, d, req, opts, gv, r) ==
    /\ table = tbl
    /\ dialect = d
    /\ request = req
    /\ options = opts
    /\ given = gv
    /\ built = [paginator |-> r.paginator, err |-> r.err]
    /\ name = r.name
    /\ pageNumber = r.pageNumber
    /\ pageSize = r.pageSize
    /\ id = r.id
    /\ cols = r.cols
    /\ filters = r.filters
    /\ parameters \in r.parameterChoices
    /\ orderBy = r.orderBy
    /\ predicates = <<>>
    /\ paginated = notPaginated
    /\ tmp = <<>>
    /\ rows = <<>>
    /\ stop = FALSE
    /\ closed = FALSE
    /\ started = FALSE
    /\ onceDone = FALSE
    /\ pageCount = 0
    /\ totalSize = 0
    /\ response = zeroResponse
    /\ held = "none"
    /\ lastOp = "none"
    /\ lastRet = "-"
    /\ lastDest = "-"
    /\ lastClause = NewRawWhereClause("").clause
    /\ main = "idle"
    /\ routines = notSpawned
    /\ chans = noValues
    /\ received = noValues
    /\ sends = noSends
    /\ filled = <<>>
    /\ delivered = <<>>
    /\ proto = "fill"
    /\ loopN = 0
    /\ iters = 0
    /\ errIter = 0
    /\ loopZero = TRUE
    /\ scanFailed = FALSE
    /\ drained = FALSE

\* The state after a NewPaginator call that returned no error.
NewPaginator(tbl, d, req, opts, gv) ==
    \E r \in {NewPaginatorResult(tbl, d, req, opts, gv)} :
        r.err = "nil" /\ paginatorOf(tbl, d, req, opts, gv, r)

\* a field of a table struct
Field(fieldName, type, tags) ==
    [fieldName |-> fieldName, type |-> type, tags |-> tags]

\* The table of the query builder: type Employees struct, every field with
\* a col tag, the fields Name and Salary with the filter tag and the field
\* whose column is idc with the id tag.
Employees(idc) ==
    LET tags(c, more) == (IF <<c>> = idc THEN << <<"id">> >> ELSE <<>>)
                             \o << <<"col", "=", c>> >> \o more
    IN  [kind |-> "struct", zero |-> TRUE,
         typeName |-> <<"E", "m", "p", "l", "o", "y", "e", "e", "s">>,
         fields |-> << Field(<<"I", "d">>, "int", tags("id", <<>>)),
                       Field(<<"N", "a", "m", "e">>, "string",
                             tags("name", << <<"filter">> >>)),
                       Field(<<"S", "a", "l", "a", "r", "y">>, "float64",
                             tags("salary", << <<"filter">> >>)),
                       Field(<<"A", "g", "e">>, "int", tags("age", <<>>)),
                       Field(<<"S", "o", "r", "t">>, "int", tags("sort", <<>>)) >>]

\* neither TableName nor PageSize is given
noneGiven == [tableName |-> <<>>, pageSize |-> <<>>]

(***************************************************************************)
(* Spec: the row buffer of a postgres paginator built for a request        *)
(* without parameters.                                                     *)
(***************************************************************************)
Init == NewPaginator(Employees(<<"id">>), "postgres", <<>>, <<>>, noneGiven)

Next ==
    \/ GetRowPtrArgs
    \/ \E row \in [1..Len(fields) -> FieldValues], total \in 0..MaxTotal :
           DriverScan(row, total)
    \/ NextData
    \/ \E dest \in Dests : Scan(dest)
    \/ Response

Spec == Init /\ [][Next]_vars

(***************************************************************************)
(* SpecClosed: the row buffer with Paginate calls in between.              *)
(***************************************************************************)
InitClosed == Init

NextClosed == Next \/ Paginate

SpecClosed == InitClosed /\ [][NextClosed]_vars

(***************************************************************************)
(* SpecWhere: extraction and WHERE building for requests that repeat = and *)
(* <> tokens on the filterable columns.                                    *)
(***************************************************************************)
WhereValues == { <<"a">>, <<"b">> }

WhereTokens ==
    [name : {<<"name">>, <<"salary">>}, op : {eq, ne}, value : WhereValues]
    \cup [name : {<<"name">>}, op : {eq}, value : {<<"a", ",", "b">>}]
    \cup [name : {<<"name">>}, op : {gt}, value : {<<"a">>}]
    \cup [name : {<<"age">>, <<"sort">>}, op : {eq}, value : {<<"a">>}]

InitWhere ==
    \E d \in Dialects, req \in SeqsUpTo(WhereTokens, MaxTokens) :
        NewPaginator(Employees(<<"id">>), d, req, <<>>, noneGiven)

NextWhere == Paginate

SpecWhere == InitWhere /\ [][NextWhere]_vars

(***************************************************************************)
(* SpecSQL: Paginate for a few requests and every list of raw predicates.  *)
(***************************************************************************)
SQLRequests ==
    { <<>>,
      << [name |-> <<"name">>, op |-> eq, value |-> <<"a">>] >>,
      << [name |-> <<"name">>, op |-> eq, value |-> <<"a">>],
         [name |-> <<"salary">>, op |-> gte, value |-> <<"b">>] >>,
      << [name |-> <<"name">>, op |-> eq, value |-> <<"a">>],
         [name |-> <<"name">>, op |-> eq, value |-> <<"b">>] >>,
      << [name |-> <<"age">>, op |-> eq, value |-> <<"a">>] >>,
      << [name |-> <<"sort">>, op |-> eq, value |-> <<"-", "name">>] >>,
      << [name |-> <<"sort">>, op |-> eq, value |-> <<",">>] >> }

\* the raw where clauses a caller may hand to AddWhereClause; the dialect
\* "" is the one of a RawWhereClause not made by NewRawWhereClause
Clauses ==
    [predicate : { <<"age IS NULL">>, <<"age > ", "?">> },
     args : { <<>>, << <<"7">> >>, << <<"8">> >> },
     dialect : Dialects \cup {""}]

InitSQL ==
    \E d \in Dialects, req \in SQLRequests :
        NewPaginator(Employees(<<"id">>), d, req, <<>>, noneGiven)

NextSQL ==
    \/ Paginate
    \/ \E clause \in Clauses : AddWhereClause(clause)

SpecSQL == InitSQL /\ [][NextSQL]_vars

(***************************************************************************)
(* SpecOrder: ORDER BY building for every sort value, every list of        *)
(* explicit options and two id columns.                                    *)
(***************************************************************************)
SortItems ==
    { <<"+", "name">>, <<"-", "name">>, <<"+", "id">>, <<"-", "id">>,
      <<"-", "salary">>, <<"name">>, <<"+", "zzz">>, <<>> }

\* the requests that carry a sort token with at most MaxTokens items, and
\* the request without one
SortRequests ==
    { <<>> } \cup
    { << [name |-> <<"sort">>, op |-> eq, value |-> Join(items, <<",">>)] >>
        : items \in SeqsUpTo(SortItems, MaxTokens) \ { <<>> } }

OrderOptions ==
    [column : {<<"id">>, <<"name">>, <<"salary">>}, sorting : {"ASC", "DESC"}]

InitOrder ==
    \E d \in Dialects, idc \in {<<"id">>, <<"name">>} :
        \/ \E req \in SortRequests :
               NewPaginator(Employees(idc), d, req, <<>>, noneGiven)
        \/ \E opts \in SeqsUpTo(OrderOptions, MaxOptions),
              req \in { r \in SortRequests : Len(r) = 0 \/ Len(r[1].value) <= 2 } :
               NewPaginator(Employees(idc), d, req, opts, noneGiven)

NextOrder == Paginate

SpecOrder == InitOrder /\ [][NextOrder]_vars

(***************************************************************************)
(* SpecPage: createPaginationClause for every page number and page size of *)
(* a range of integers, the two fields of the paginator holding them.      *)
(***************************************************************************)
PageInts == (-MaxPage)..MaxPage

InitPage ==
    \E d \in Dialects, pn \in PageInts, ps \in PageInts :
        \E r \in {NewPaginatorResult(Employees(<<"id">>), d, <<>>, <<>>,
                                     noneGiven)} :
            paginatorOf(Employees(<<"id">>), d, <<>>, <<>>, noneGiven,
                        [r EXCEPT !.pageNumber = pn, !.pageSize = ps])

NextPage == Paginate

SpecPage == InitPage /\ [][NextPage]_vars

(***************************************************************************)
(* SpecResponse: Response between the driver scans of paginators with a    *)
(* small page size, on the first or the second page.                       *)
(***************************************************************************)
InitResponse ==
    \E req \in { <<>>, << [name |-> <<"page">>, op |-> eq, value |-> <<"2">>] >> },
       size \in 1..2 :
        NewPaginator(Employees(<<"id">>), "postgres", req, <<>>,
                     [tableName |-> <<>>, pageSize |-> <<size>>])

NextResponse ==
    \/ GetRowPtrArgs
    \/ \E total \in 0..MaxSize : DriverScan([i \in 1..Len(fields) |-> "x"], total)
    \/ Response

SpecResponse == InitResponse /\ [][NextResponse]_vars

(***************************************************************************)
(* SpecNew: every NewPaginator call over well-formed and malformed tables, *)
(* supported and unsupported dialects, requests with page parameters and   *)
(* the TableName and PageSize options; the state holds what the call       *)
(* returned, whether it failed or not.                                     *)
(***************************************************************************)

\* a struct whose columns are inferred: no field has a col tag
Inferred(typeName) ==
    [kind |-> "struct", zero |-> TRUE, typeName |-> typeName,
     fields |-> << Field(<<"I", "D">>, "int", << <<"id">> >>),
                   Field(<<"M", "y", "A", "w", "e", "s", "o", "m", "e",
                           "F", "i", "e", "l", "d">>, "string",
                         << <<"filter">> >>),
                   Field(<<"N", "a", "m", "e">>, "string", <<>>) >>]

TypeNames ==
    { <<"I", "D">>,
      <<"M", "y", "A", "w", "e", "s", "o", "m", "e", "F", "i", "e", "l", "d">>,
      <<"m", "y", "C", "a", "m", "e", "l", "C", "a", "s", "e", "V", "a", "r">>,
      <<"E", "m", "p", "l", "o", "y", "e", "e", "s">> }

\* the tables validateTable refuses
Malformed ==
    LET e == Employees(<<"id">>)
    IN  { Employees(<<"zzz">>),
          [e EXCEPT !.fields[2].tags = << <<"id">> >> \o @],
          [e EXCEPT !.fields[1].tags = << <<"id">> >> \o @],
          [e EXCEPT !.fields[4].type = "uint"],
          [e EXCEPT !.fields[1].type = "uint", !.fields[1].tags = Tail(@)],
          [e EXCEPT !.kind = "ptr", !.typeName = <<>>],
          [e EXCEPT !.kind = "int", !.typeName = <<"i", "n", "t">>,
                    !.fields = <<>>],
          [e EXCEPT !.zero = FALSE] }

Tables == {Employees(<<"id">>)} \cup {Inferred(n) : n \in TypeNames} \cup Malformed

\* the requests with a page or a page_size parameter
PageRequests ==
    LET tok(k, v) == [name |-> <<k>>, op |-> eq, value |-> v]
    IN  { <<>> }
        \cup { << tok(k, v) >> :
                 k \in {"page", "page_size"},
                 v \in { <<"0">>, <<"2">>, <<"-", "1">>, <<"x">>, <<>>,
                         <<"9", "9", "9", "9">> } }
        \cup { << tok("page", <<"3">>), tok("page_size", <<"2">>) >> }

\* the TableName and PageSize options of a call
Givens ==
    [tableName : { <<>>, << <<>> >>, << <<" ", " ">> >>, << <<" ", "staff">> >> },
     pageSize : { <<>>, <<0>>, <<1>>, <<MaxSize>>, <<MaxInt>>, <<MaxInt + 1>>,
                  <<MaxUint>> }]

InitNew ==
    \E tbl \in Tables, d \in Dialects \cup {"sqlite", ""}, req \in PageRequests,
       gv \in Givens :
        \E r \in {NewPaginatorResult(tbl, d, req, <<>>, gv)} :
            paginatorOf(tbl, d, req, <<>>, gv, r)

NextNew == Paginate

SpecNew == InitNew /\ [][NextNew]_vars

(***************************************************************************)
(* SpecCols: construction and Paginate over tables whose id field and      *)
(* filterable field carry no col tag, a col tag that repeats the inferred  *)
(* name, or a col tag that overrides it.                                   *)
(***************************************************************************)

\* a struct whose field Id has the id tag and the col tags idCol, and whose
\* field Name has the filter tag and the col tags nameCol
Overridden(idCol, nameCol) ==
    [kind |-> "struct", zero |-> TRUE,
     typeName |-> <<"E", "m", "p", "l", "o", "y", "e", "e", "s">>,
     fields |-> << Field(<<"I", "d">>, "int", << <<"id">> >> \o idCol),
                   Field(<<"N", "a", "m", "e">>, "string",
                         nameCol \o << <<"filter">> >>),
                   Field(<<"A", "g", "e">>, "int", <<>>) >>]

ColTables ==
    { Overridden(idCol, nameCol) :
        idCol \in { <<>>, << <<"col", "=", "id">> >>,
                    << <<"col", "=", "employee_id">> >> },
        nameCol \in { <<>>, << <<"col", "=", "name">> >>,
                      << <<"col", "=", "person_name">> >> } }

\* requests that filter by the inferred name or by the overriding name
ColRequests ==
    { <<>> } \cup { << [name |-> <<k>>, op |-> eq, value |-> <<"a">>] >> :
                      k \in {"name", "person_name", "age"} }

InitCols ==
    \E tbl \in ColTables, d \in Dialects, req \in ColRequests :
        NewPaginator(tbl, d, req, <<>>, noneGiven)

NextCols == Paginate

SpecCols == InitCols /\ [][NextCols]_vars

(***************************************************************************)
(* SpecMaps: extraction and WHERE building for requests long enough to     *)
(* repeat a token on two columns, so that the maps eqDuplicates and        *)
(* notEqDuplicates of getParameters hold two keys.                          *)
(***************************************************************************)
MapTokens ==
    [name : {<<"name">>, <<"salary">>}, op : {eq, ne}, value : {<<"a">>}]
    \cup [name : {<<"name">>}, op : {eq}, value : {<<"b">>}]
    \cup [name : {<<"salary">>}, op : {ne}, value : {<<"b">>}]

InitMaps ==
    \E d \in Dialects, req \in [1..(MaxTokens + 1) -> MapTokens] :
        NewPaginator(Employees(<<"id">>), d, req, <<>>, noneGiven)

NextMaps == Paginate

SpecMaps == InitMaps /\ [][NextMaps]_vars

(***************************************************************************)
(* SpecOps: extraction for every request of one token made of a column     *)
(* name followed by at most MaxRest operator and value characters.         *)
(***************************************************************************)
RestChars == {">", "<", "=", "5"}

OpsRequests ==
    { << [name |-> n, op |-> <<>>, value |-> rest] >> :
          n \in {<<"name">>, <<"salary">>, <<"age">>},
          rest \in SeqsUpTo(RestChars, MaxRest) }

InitOps ==
    \E d \in Dialects, req \in OpsRequests :
        NewPaginator(Employees(<<"id">>), d, req, <<>>, noneGiven)

NextOps == Paginate

SpecOps == InitOps /\ [][NextOps]_vars

(***************************************************************************)
(* SpecGo: the Paginate calls of SpecSQL's paginators, goroutine by        *)
(* goroutine. SpecGoLive adds the scheduling: a goroutine that can run and *)
(* a receive that can complete eventually do.                              *)
(***************************************************************************)
InitGo == InitSQL

NextGo ==
    \/ GoCreateWhereClause
    \/ GoCreatePaginationClause
    \/ GoCreateOrderByClause
    \/ RunCreateWhereClause
    \/ RunCreatePaginationClause
    \/ RunCreateOrderByClause
    \/ ReceiveC1
    \/ ReceiveC2
    \/ ReceiveC3

SpecGo == InitGo /\ [][NextGo]_vars

SpecGoLive ==
    /\ SpecGo
    /\ WF_vars(GoCreatePaginationClause)
    /\ WF_vars(GoCreateOrderByClause)
    /\ WF_vars(RunCreateWhereClause)
    /\ WF_vars(RunCreatePaginationClause)
    /\ WF_vars(RunCreateOrderByClause)
    /\ WF_vars(ReceiveC1)
    /\ WF_vars(ReceiveC2)
    /\ WF_vars(ReceiveC3)

(***************************************************************************)
(* Claims about the row buffer, checked under Spec.                        *)
(***************************************************************************)

inLoop == proto \in {"body", "test", "ended"}

C2_DrainLoopTerminates ==
    inLoop =>
        /\ iters <= loopN
        /\ (errIter # 0 => iters = errIter /\ proto # "body")
        /\ (proto = "ended" /\ errIter = 0 => iters = loopN)

\* C2 witness: a loop over at least two rows was ended by a failing Scan
\* before all rows were drained.
C2_Witness ==
    /\ proto = "ended" /\ errIter # 0 /\ loopN >= 2 /\ iters < loopN
    /\ lastOp = "NextData" /\ lastRet = "false"

\* C3: the page count is 0 until the first successful Scan, and from then on
\* it is the number of GetRowPtrArgs calls that returned destinations, in
\* the paginator and in what Response returns, whatever is called later.
C3_PageCountFrozen ==
    /\ (Len(delivered) = 0 => pageCount = 0)
    /\ (Len(delivered) >= 1 => pageCount = Len(filled))
    /\ (lastOp = "Response" => response.PageCount = pageCount)

\* C3 witness: Response is called when some of several rows are consumed.
C3_Witness ==
    /\ lastOp = "Response"
    /\ Len(delivered) >= 1 /\ Len(rows) >= 1
    /\ response.PageCount = Len(delivered) + Len(rows)

\* C4 as stated: once NextData or Scan has been called, every later
\* GetRowPtrArgs call returns nil and changes neither tmp, rows nor
\* pageCount.
C4_NoPrepareAfterDrainCall ==
    [][(drained /\ lastOp' = "GetRowPtrArgs") =>
           (lastRet' = "nil" /\ UNCHANGED <<tmp, rows, pageCount>>)]_vars

\* C4 amended: once a Scan call has succeeded, every later GetRowPtrArgs
\* call returns nil and changes neither tmp, rows nor pageCount.
C4_NoPrepareAfterScan ==
    [][(Len(delivered) >= 1 /\ lastOp' = "GetRowPtrArgs") =>
           (lastRet' = "nil" /\ UNCHANGED <<tmp, rows, pageCount>>)]_vars

\* C4 witness: GetRowPtrArgs returned nil while rows were still queued.
C4_Witness ==
    /\ Len(delivered) >= 1 /\ Len(rows) >= 1
    /\ lastOp = "GetRowPtrArgs" /\ lastRet = "nil"

\* C5 as stated: after a Scan call has returned an error no later Scan call
\* succeeds.
C5_ScanErrorPermanent ==
    [][(scanFailed /\ lastOp' = "Scan") => lastRet' # "nil"]_vars

\* C5 amended: after a Scan call has returned an error every later NextData
\* call returns false, so the drain loop delivers no further row.
C5_ScanErrorStopsLoop ==
    [][(scanFailed /\ lastOp' = "NextData") =>
           (lastRet' = "false" /\ delivered' = delivered)]_vars

\* C5 witness: NextData answers false after a Scan error although completed
\* rows are queued and the paginator is not closed.
C5_Witness ==
    /\ scanFailed /\ ~closed /\ Len(rows) >= 1
    /\ lastOp = "NextData" /\ lastRet = "false"

(***************************************************************************)
(* Claims about the query builder                                          *)
(***************************************************************************)

\* the symbols a placeholder, formatted or not, leaves in a statement
PlaceholderSymbols(sql) ==
    {"?", "$%v", "$%!v(MISSING)", "%!(EXTRA)"}
        \cup {"$" \o ToString(k) : k \in 1..Len(sql)}

\* the placeholders of a statement, from left to right
placeholdersOf(sql) == SelectSeq(sql, LAMBDA x : x \in PlaceholderSymbols(sql))

\* the number of times symbol c occurs in s
countOf(s, c) == Cardinality({i \in 1..Len(s) : s[i] = c})

\* the values of the filter parameters, columns outside, parameters inside
filterValues ==
    LET parts == parameterClauses(cols, parameters, "?")
    IN  Flatten([i \in 1..Len(parts) |-> parts[i].args])

\* C6: for a postgres paginator the placeholders of the statement Paginate
\* returns are exactly $1 .. $n from left to right, n being the number of
\* returned arguments, and the arguments are the filter values followed by
\* the arguments of each predicate in the order the predicates were added.
C6_PostgresPlaceholdersNumbered ==
    (lastOp = "Paginate" /\ dialect = "postgres" /\ paginated.status = "ok")
        => /\ placeholdersOf(paginated.sql)
                = [k \in 1..Len(paginated.args) |-> "$" \o ToString(k)]
           /\ paginated.args
                = filterValues
                    \o Flatten([i \in 1..Len(predicates) |-> predicates[i].args])

\* the statement up to the WHERE clause
selectFrom ==
    <<"SELECT ">> \o Join(cols, <<", ">>) \o <<", count(*) over() FROM ">>
        \o name

\* the number of fragments the WHERE clause is made of
fragments == Len(parameterClauses(cols, parameters, "?")) + Len(predicates)

\* C7: Paginate always returns, with a nil error and a statement of the
\* shape SELECT cols, count(*) over() FROM table [WHERE f1 AND f2 ...]
\* ORDER BY ... LIMIT n OFFSET m; the WHERE clause is left out exactly when
\* there is no fragment, and then no argument is returned.
C7_PaginateReturnsStatement ==
    lastOp = "Paginate"
        => /\ paginated.status = "ok"
           /\ LET s == paginated.sql
                  w == Index(s, " WHERE ")
                  o == Index(s, " ORDER BY ")
                  l == Index(s, " LIMIT ")
              IN  /\ SubSeq(s, 1, Len(selectFrom)) = selectFrom
                  /\ countOf(s, " ORDER BY ") = 1
                  /\ countOf(s, " LIMIT ") = 1
                  /\ o < l
                  /\ SubSeq(s, l, Len(s))
                       = createPaginationClause(pageNumber, pageSize)
                  /\ IF fragments = 0
                     THEN w = 0 /\ o = Len(selectFrom) + 1
                          /\ paginated.args = <<>>
                     ELSE /\ w = Len(selectFrom) + 1
                          /\ countOf(s, " WHERE ") = 1
                          /\ w < o
                          /\ countOf(s, " AND ") = fragments - 1

\* the terms of the ORDER BY clause of a statement
orderTermsOf(sql) ==
    Split(SubSeq(sql, Index(sql, " ORDER BY ") + 1, Index(sql, " LIMIT ") - 1),
          ",")

\* the id column is the last term of the ORDER BY clause of sql and no
\* earlier term is on it
idIsLastTerm(sql) ==
    LET terms == orderTermsOf(sql)
    IN  /\ terms[Len(terms)] = id
        /\ \A k \in 1..(Len(terms) - 1) : SubSeq(terms[k], 1, Len(id)) # id

\* C8: for every sort value, every list of explicit options and every id
\* column, createOrderByClause builds a clause, the id column is its last
\* term and no earlier term is on the id column.
C8_IdIsLastOrderTerm ==
    lastOp = "Paginate"
        => paginated.status = "ok" /\ idIsLastTerm(paginated.sql)

\* Whenever createOrderByClause does build a clause, the id column is its
\* last term and no earlier term is on the id column.
IdIsLastWhenBuilt ==
    (lastOp = "Paginate" /\ paginated.status = "ok")
        => idIsLastTerm(paginated.sql)

\* a statement was returned for a sort value (or for options) that orders
\* by the id column and by another column
IdIsLastWhenBuiltWitness ==
    /\ lastOp = "Paginate"
    /\ paginated.status = "ok"
    /\ Len(orderTermsOf(paginated.sql)) >= 2
    /\ \/ /\ options = <<>>
          /\ request # <<>>
          /\ \E k \in 1..Len(request[1].value) : request[1].value[k] = Head(id)
       \/ \E i \in 1..Len(options) : options[i].column = id

\* the values of the tokens of the request on column c with operator o
tokenValues(c, o) ==
    Flatten([i \in 1..Len(request) |->
        IF request[i].name = c /\ request[i].op = o
        THEN <<request[i].value>> ELSE <<>>])

\* the distinct elements of vs in the order of their first appearance
firstAppearances(vs) ==
    Flatten([i \in 1..Len(vs) |->
        IF \E j \in 1..(i - 1) : vs[j] = vs[i] THEN <<>> ELSE <<vs[i]>>])

\* the extracted parameters on column c with sign s
withSign(c, s) == SelectSeq(parameters, LAMBDA p : p.name = c /\ p.sign = s)

\* two or more tokens c single v are one parameter c grouped v1,v2,...;
\* a lone token stays a parameter of sign single
promoted(c, single, grouped) ==
    LET vs == tokenValues(c, single)
    IN  /\ Len(vs) >= 2
            => /\ withSign(c, single) = <<>>
               /\ withSign(c, grouped)
                    = << [name |-> c, sign |-> grouped,
                          value |-> Join(firstAppearances(vs), <<",">>)] >>
        /\ Len(vs) = 1
            => /\ withSign(c, grouped) = <<>>
               /\ withSign(c, single)
                    = << [name |-> c, sign |-> single, value |-> vs[1]] >>

C10_InRoundTrip ==
    \A i \in 1..Len(filters) :
        LET vs == tokenValues(filters[i], eq)
            w == createWhereClause(dialect, <<filters[i]>>,
                                   withSign(filters[i], _in), <<>>)
        IN  (Len(vs) >= 2 /\ firstAppearances(vs) = vs)
                => /\ w.exists
                   /\ countOf(w.clause, dialectPlaceholder[dialect]) = Len(vs)
                   /\ w.args = vs

\* the text of the WHERE clause of a statement, <<>> when it has none
whereOf(sql) ==
    IF Index(sql, " WHERE ") = 0 THEN <<>>
    ELSE SubSeq(sql, Index(sql, " WHERE ") + 1, Index(sql, " ORDER BY ") - 1)

\* the columns of the table whose field does not carry the filter tag
unfilterable == {cols[i] : i \in 1..Len(cols)} \ {filters[i] : i \in 1..Len(filters)}

\* the arguments of the fragments on the filterable columns
filterableValues ==
    LET parts == parameterClauses(filters, parameters, "?")
    IN  Flatten([i \in 1..Len(parts) |-> parts[i].args])

\* C11: whatever the query string is, no column without the filter tag
\* appears in the WHERE clause Paginate derives from it, and the arguments
\* are those of the fragments on the filterable columns only.
C11_OnlyFilterableColumns ==
    (lastOp = "Paginate" /\ paginated.status = "ok")
        => /\ \A k \in 1..Len(whereOf(paginated.sql)) :
                  <<whereOf(paginated.sql)[k]>> \notin unfilterable
           /\ paginated.args = filterableValues

\* the text after the LIMIT keyword of a statement
limitOf(sql) == SubSeq(sql, Index(sql, " LIMIT ") + 1, Len(sql))

\* C12: createPaginationClause emits LIMIT pageSize, unclamped, and
\* OFFSET o with o = 0 when pageNumber <= 1 and o = pageSize *
\* (pageNumber - 1) when pageNumber > 1; o is never negative, whatever the
\* two integers are.
C12_LimitAndOffset ==
    (lastOp = "Paginate" /\ paginated.status = "ok")
        => LET o == IF pageNumber <= 1 THEN 0 ELSE pageSize * (pageNumber - 1)
           IN  /\ limitOf(paginated.sql)
                    = <<ToString(pageSize), " OFFSET ", ToString(o)>>
               /\ o >= 0

\* C13: every Response call returns HasNextPage = (pageNumber * pageSize <
\* totalSize), NextPageNumber = pageNumber + 1 when HasNextPage and 0
\* otherwise, and HasPreviousPage = (pageNumber > 1), computed from the
\* totalSize current at the call, whatever earlier calls returned;
\* totalSize = 0 gives HasNextPage = FALSE and NextPageNumber = 0.
C13_ResponseFlags ==
    lastOp = "Response"
        => /\ response.HasNextPage = (pageNumber * pageSize < totalSize)
           /\ response.NextPageNumber
                = (IF response.HasNextPage THEN pageNumber + 1 ELSE 0)
           /\ response.HasPreviousPage = (pageNumber > 1)
           /\ totalSize = 0
                => ~response.HasNextPage /\ response.NextPageNumber = 0

(***************************************************************************)
(* Claims about construction, checked under SpecNew.                       *)
(***************************************************************************)

\* the call reached validateTable: the dialect and the options were accepted
reachedValidation ==
    CheckIfDialectIsSupported(dialect) /\ optionsError(given) = "nil"

\* C14: NewPaginator called with a malformed table (no id tag, several id
\* tags, a field of an unsupported type, not a struct, not the zero value)
\* returns a non-nil error and a nil Paginator.
C14_MalformedTableRejected ==
    (reachedValidation /\ table \in Malformed)
        => built.err # "nil" /\ built.paginator = "nil"

\* The error half of C14 alone: a malformed table always yields an error,
\* and each kind of malformation is among the calls made.
MalformedTableFails ==
    (reachedValidation /\ table \in Malformed) => built.err # "nil"

MalformedTableFailsWitness ==
    /\ reachedValidation
    /\ table \in Malformed
    /\ built.err = "ErrManyIDs"

\* the name handed to TableName is empty or made of blanks only
blankName(n) == \A j \in 1..Len(n) : n[j] = " "

\* NewPaginator returned an error and a nil Paginator
refused == built.err # "nil" /\ built.paginator = "nil"

\* C15: NewPaginator returns a non-nil error and a nil Paginator when the
\* dialect is neither mysql nor postgres (whatever the options and the
\* table are, the error being the one of the dialect), when TableName is
\* given a blank or whitespace-only name, or when PageSize is given 0;
\* NewRawWhereClause and NewInnerJoinClause return an error for every
\* dialect other than those two.
C15_ConfigurationErrors ==
    /\ dialect \notin {"mysql", "postgres"}
         => /\ refused
            /\ built.err = "ErrDialectNotSupported"
            /\ NewRawWhereClause(dialect).err # "nil"
            /\ NewInnerJoinClause(dialect).err # "nil"
    /\ (\E i \in 1..Len(given.tableName) : blankName(given.tableName[i]))
         => refused
    /\ (\E i \in 1..Len(given.pageSize) : given.pageSize[i] = 0) => refused

\* a supported dialect, a well-formed table and a whitespace-only table name
C15_Witness ==
    /\ dialect = "postgres"
    /\ table = Employees(<<"id">>)
    /\ given.tableName = << <<" ", " ">> >>
    /\ given.pageSize = <<MaxSize>>
    /\ built = [paginator |-> "nil", err |-> "ErrBlankTableName"]

(***************************************************************************)
(* Claims about raw predicates, checked under SpecSQL.                     *)
(***************************************************************************)

\* the clauses AddWhereClause has to refuse
refusedClause(clause) ==
    \/ countOf(clause.predicate, "?") = 0 /\ Len(clause.args) >= 1
    \/ countOf(clause.predicate, "?") # Len(clause.args)
    \/ clause.dialect \notin {"mysql", "postgres"}

\* C16: AddWhereClause returns an error for a predicate without ? that has
\* arguments, for a number of ? that differs from the number of arguments
\* and for a clause of an unsupported dialect; on error the predicates are
\* unchanged and Paginate returns what it returned before; on success the
\* clause is appended after the predicates already there.
C16_AddWhereClause ==
    [][lastOp' = "AddWhereClause"
          => IF refusedClause(lastClause')
             THEN /\ lastRet' # "nil"
                  /\ predicates' = predicates
                  /\ PaginateOf(dialect', cols', parameters', predicates',
                                pageNumber', pageSize', orderBy', id', name')
                       = PaginateResult
             ELSE /\ lastRet' = "nil"
                  /\ predicates' = predicates \o <<lastClause'>>]_vars

\* a clause was refused for its dialect after another one had been added
C16_Witness ==
    /\ lastOp = "AddWhereClause"
    /\ lastRet = "ErrDialectNotSupported"
    /\ Len(predicates) >= 1

(***************************************************************************)
(* Claims about explicit ORDER BY options, checked under SpecOrder.        *)
(***************************************************************************)

\* the options without the id column and without the later options on a
\* column that an earlier option names
keptOptions ==
    SelectSeq([i \in 1..Len(options) |->
                  IF options[i].column = id
                     \/ \E j \in 1..(i - 1) : options[j].column = options[i].column
                  THEN <<>> ELSE <<options[i]>>],
              LAMBDA o : o # <<>>)

\* the terms the options ask for, the id column last
explicitTerms ==
    [i \in 1..Len(keptOptions) |->
        keptOptions[i][1].column \o <<" ", keptOptions[i][1].sorting>>]
    \o <<id>>

\* C17: when OrderByAsc / OrderByDesc options are given to NewPaginator, the
\* ORDER BY clause lists their columns in option order, duplicates removed
\* keeping the first and the id column removed, then the id column; the
\* sort parameter of the request does not change the clause.
C17_ExplicitOrderWins ==
    (options # <<>> /\ lastOp = "Paginate")
        => /\ paginated.status = "ok"
           /\ orderTermsOf(paginated.sql) = explicitTerms

\* C17 for the options that name a column other than the id column: the
\* clause is the one of the options whatever the sort parameter is.
ExplicitOrderWinsWhenKept ==
    (keptOptions # <<>> /\ lastOp = "Paginate")
        => /\ paginated.status = "ok"
           /\ orderTermsOf(paginated.sql) = explicitTerms

\* two options on one column, a sort parameter on another one
ExplicitOrderWinsWhenKeptWitness ==
    /\ lastOp = "Paginate"
    /\ Len(options) = 2
    /\ options[1].column = options[2].column
    /\ options[1].sorting # options[2].sorting
    /\ options[1].column # id
    /\ request # <<>>
    /\ request[1].value = <<"-", "salary">>

\* the value of a parameter of the request is absent, not an integer, or an
\* integer that is not positive
absentOrNotPositive(v) ==
    \/ v = <<>>
    \/ \E i \in 1..Len(v) : v[i] \notin DOMAIN digitOf \cup {"-", "+"}
    \/ Head(v) = "-"
    \/ \A i \in 1..Len(v) : v[i] = "0"

\* C18: after a NewPaginator call that returned no error, pageNumber >= 1
\* and pageSize >= 1; a page parameter that is absent, not an integer or not
\* positive resolves to 1, such a page_size parameter to 30, and a PageSize
\* option overrides the page_size of the request with its size.
C18_PagePositive ==
    built.err = "nil"
        => /\ pageNumber >= 1
           /\ pageSize >= 1
           /\ absentOrNotPositive(queryGet(request, <<"page">>))
                => pageNumber = 1
           /\ (given.pageSize = <<>>
                 /\ absentOrNotPositive(queryGet(request, <<"page_size">>)))
                => pageSize = 30
           /\ given.pageSize # <<>> => pageSize = given.pageSize[1]

\* C18 for the sizes that an int holds: the page number and the page size
\* of every paginator built without a PageSize above MaxInt are positive.
PagePositiveWithinInt ==
    (built.err = "nil" /\ \A i \in 1..Len(given.pageSize) : given.pageSize[i] <= MaxInt)
        => /\ pageNumber >= 1
           /\ pageSize >= 1
           /\ absentOrNotPositive(queryGet(request, <<"page">>))
                => pageNumber = 1
           /\ (given.pageSize = <<>>
                 /\ absentOrNotPositive(queryGet(request, <<"page_size">>)))
                => pageSize = 30
           /\ given.pageSize # <<>> => pageSize = given.pageSize[1]

PagePositiveWithinIntWitness ==
    /\ built.err = "nil"
    /\ given.pageSize = <<MaxInt>>
    /\ queryGet(request, <<"page_size">>) = <<"2">>
    /\ pageSize = MaxInt
    /\ lastOp = "Paginate"

\* The lowercase snake_case of an identifier: an underscore before every
\* upper-case character that follows a character that is not upper-case,
\* every character kept, in lower case.
snakeCase(ident) ==
    << Concat(ToLower(Flatten([i \in 1..Len(ident) |->
           IF i > 1 /\ IsUpper(ident[i]) /\ ~IsUpper(ident[i - 1])
           THEN <<"_", ident[i]>> ELSE <<ident[i]>>]))) >>

\* the fields of the table whose column is inferred from their name
inferredFields ==
    {i \in 1..Len(table.fields) : colNamesFromTags(tagsOf(table.fields[i])) = <<>>}

\* C19: the inferred table name and the inferred column names are the
\* lowercase snake_case of the identifier: MyAwesomeField gives
\* my_awesome_field, myCamelCaseVar gives my_camel_case_var and ID gives id.
C19_InferredNamesAreSnakeCase ==
    built.err = "nil"
        => /\ given.tableName = <<>> => name = snakeCase(table.typeName)
           /\ \A i \in inferredFields :
                 cols[i] = snakeCase(table.fields[i].fieldName)

\* an identifier that starts with an upper-case character and has no two
\* upper-case characters in a row
pascalCase(ident) ==
    /\ ident # <<>>
    /\ IsUpper(ident[1])
    /\ \A i \in 2..Len(ident) : ~(IsUpper(ident[i]) /\ IsUpper(ident[i - 1]))

\* C19 for the identifiers in PascalCase.
PascalNamesAreSnakeCase ==
    built.err = "nil"
        => /\ (given.tableName = <<>> /\ pascalCase(table.typeName))
                => name = snakeCase(table.typeName)
           /\ \A i \in inferredFields :
                 pascalCase(table.fields[i].fieldName)
                     => cols[i] = snakeCase(table.fields[i].fieldName)

PascalNamesAreSnakeCaseWitness ==
    /\ built.err = "nil"
    /\ name = <<"my_awesome_field">>
    /\ cols[2] = <<"my_awesome_field">>
    /\ lastOp = "Paginate"

(***************************************************************************)
(* Claims about Scan without NextData, checked under Spec.                 *)
(***************************************************************************)

\* destinations were prepared and filled, the last of them just now, and
\* neither NextData nor Scan has been called
filledOnly ==
    /\ proto = "fill"
    /\ ~drained
    /\ Len(filled) >= 1
    /\ lastOp = "DriverScan"

\* the step is a Scan call with a zero-valued destination
scanOfZero == lastOp' = "Scan" /\ lastDest' = "zero"

\* C20: after N >= 1 GetRowPtrArgs calls, each followed by a driver scan,
\* and no NextData call, the first Scan with a valid zero-valued destination
\* succeeds, delivers the first row and sets pageCount to N.
C20_ScanFlushesPending ==
    [][(filledOnly /\ scanOfZero)
          => /\ lastRet' = "nil"
             /\ delivered' = <<filled[1]>>
             /\ pageCount' = Len(filled)]_vars

\* C20 for N >= 2: Scan flushes the pending destinations into the rows that
\* the earlier GetRowPtrArgs calls buffered.
ScanFlushesPendingAfterTwo ==
    [][(filledOnly /\ Len(filled) >= 2 /\ scanOfZero)
          => /\ lastRet' = "nil"
             /\ delivered' = <<filled[1]>>
             /\ pageCount' = Len(filled)]_vars

\* a first Scan, made without NextData, delivered the first of three rows
ScanFlushesPendingAfterTwoWitness ==
    /\ proto = "off"
    /\ lastOp = "Scan"
    /\ lastRet = "nil"
    /\ Len(filled) = MaxRows
    /\ delivered = <<filled[1]>>
    /\ pageCount = MaxRows
    /\ Len(rows) = MaxRows - 1

\* the only destinations prepared were filled, and Scan refused to deliver
ScanRefusesTheOnlyRow ==
    /\ Len(filled) = 1
    /\ lastOp = "Scan"
    /\ lastDest = "zero"
    /\ lastRet = "ErrScanWithoutNextData"
    /\ proto = "off"
    /\ delivered = <<>>
    /\ tmp # <<>>

(***************************************************************************)
(* Claims about the stop and closed flags, checked under Spec.             *)
(***************************************************************************)

\* C21: once the paginator is stopped (a Scan returned an error) or closed
\* (all rows consumed), every NextData call returns false, whatever rows or
\* pending destinations are buffered.
C21_NoNextDataOnceStopped ==
    [][((stop \/ closed) /\ lastOp' = "NextData") => lastRet' = "false"]_vars

\* C21 witness: NextData answered false on a stopped paginator after it
\* flushed the pending destinations into a queue that holds every row.
C21_Witness ==
    /\ stop
    /\ lastOp = "NextData" /\ lastRet = "false"
    /\ tmp = <<>>
    /\ Len(filled) >= 2
    /\ Len(rows) = Len(filled)

pendingRows == IF tmp # <<>> THEN <<rowOf(tmp)>> ELSE <<>>

\* delivered rows, queued rows and the pending row are, in this order, the
\* rows of the GetRowPtrArgs calls that returned destinations
conserved ==
    /\ Len(delivered) + Len(rows) + (IF tmp # <<>> THEN 1 ELSE 0) = Len(filled)
    /\ delivered \o rows \o pendingRows = filled

\* a GetRowPtrArgs call that returned destinations, a NextData call or a
\* first successful Scan call found pending destinations: they are folded
\* into one row at the tail of the queue and cleared
flushedAtTail ==
    /\ (lastOp' = "GetRowPtrArgs" /\ lastRet' = "args" /\ tmp # <<>>)
         => rows' = rows \o <<rowOf(tmp)>> /\ tmp' = newTmp
    /\ (lastOp' = "NextData" /\ tmp # <<>>)
         => rows' = rows \o <<rowOf(tmp)>> /\ tmp' = <<>>
    /\ (lastOp' = "Scan" /\ lastRet' = "nil" /\ ~onceDone /\ tmp # <<>>)
         => /\ delivered' \o rows' = delivered \o rows \o <<rowOf(tmp)>>
            /\ tmp' = <<>>

\* C23: flushing conserves rows. Every GetRowPtrArgs, NextData or first Scan
\* call that finds pending destinations folds them into exactly one row at
\* the tail of the queue and clears them, and in every reachable state the
\* successful Scans, the queued rows and the pending destinations add up to
\* the GetRowPtrArgs calls that returned destinations: no row is lost or
\* duplicated.
C23_FlushConservesRows == []conserved /\ [][flushedAtTail]_vars

\* C23 witness: of three filled rows one was delivered by a first Scan that
\* flushed the pending one, and two different rows are still queued.
C23_Witness ==
    /\ Len(filled) = MaxRows
    /\ Len(delivered) = 1
    /\ Len(rows) = MaxRows - 1
    /\ rows[1] # rows[Len(rows)]
    /\ proto = "off"
    /\ lastOp = "Scan" /\ lastRet = "nil"

(***************************************************************************)
(* Claims about operator detection, checked under SpecOps.                 *)
(***************************************************************************)

\* the operators in the order of their priority
priority == << <<">", "=">>, <<"<", "=">>, <<"<", ">">>, <<">">>, <<"<">>, <<"=">> >>

\* op is a prefix of rest and at least one character of value follows it
opens(op, rest) ==
    Len(rest) > Len(op) /\ SubSeq(rest, 1, Len(op)) = op

\* the parameters a token name rest of a filterable column has to yield
claimedParameters(n, rest) ==
    IF \A k \in 1..Len(priority) : ~opens(priority[k], rest) THEN <<>>
    ELSE LET k == CHOOSE i \in 1..Len(priority) :
                      /\ opens(priority[i], rest)
                      /\ \A j \in 1..(i - 1) : ~opens(priority[j], rest)
         IN  << [name |-> n, sign |-> priority[k],
                 value |-> SubSeq(rest, Len(priority[k]) + 1, Len(rest))] >>

\* C24: for a token name rest of a filterable column the operator is the
\* first of >=, <=, <>, >, <, = that is a prefix of rest with at least one
\* character after it: name>=5 yields (>=, 5) and not (>, =5), name<>5
\* yields (<>, 5) and not (<, >5), and a token in which no operator follows
\* the name yields no parameter.
C24_OperatorPriority ==
    (Len(request) = 1 /\ isStringIn(request[1].name, filters))
        => parameters = claimedParameters(request[1].name, request[1].value)

\* C24 witness: Paginate on the request name>=5.
C24_Witness ==
    /\ request = << [name |-> <<"name">>, op |-> <<>>, value |-> <<">", "=", "5">>] >>
    /\ parameters = << [name |-> <<"name">>, sign |-> gte, value |-> <<"5">>] >>
    /\ lastOp = "Paginate"
    /\ paginated.args = << <<"5">> >>

(***************************************************************************)
(* Claims about the sort parameter, checked under SpecOrder.               *)
(***************************************************************************)

\* the request carries a sort parameter and no explicit option was given
sortedByRequest ==
    /\ options = <<>>
    /\ Len(request) = 1
    /\ request[1].name = <<"sort">>
    /\ request[1].value # <<>>

\* the tokens of the sort value
sortTokens == Split(request[1].value, ",")

\* the term a token contributes: c ASC for +c, c DESC for -c when c is a
\* column other than the id column, nothing otherwise
claimedTerm(v) ==
    IF Len(v) = 2 /\ v[1] \in {"+", "-"} /\ isStringIn(<<v[2]>>, cols)
       /\ <<v[2]>> # id
    THEN << <<v[2], " ", IF v[1] = "+" THEN "ASC" ELSE "DESC">> >>
    ELSE <<>>

\* the terms of the clause the sort value asks for, the id column last
claimedSortTerms ==
    Flatten([k \in 1..Len(sortTokens) |-> claimedTerm(sortTokens[k])]) \o <<id>>

\* C25: for every value of the sort parameter (empty tokens, tokens without
\* sign and tokens on unknown columns included) Paginate returns a
\* statement whose ORDER BY clause has a term c ASC / c DESC per token +c /
\* -c on a known column other than the id column, in token order, the other
\* tokens being skipped, and the id column last.
C25_EverySortValueBuilds ==
    (sortedByRequest /\ lastOp = "Paginate")
        => /\ paginated.status = "ok"
           /\ orderTermsOf(paginated.sql) = claimedSortTerms

\* C25 for the sort values without an empty token.
SortValueBuildsWithoutEmptyToken ==
    (sortedByRequest /\ lastOp = "Paginate"
       /\ \A k \in 1..Len(sortTokens) : sortTokens[k] # <<>>)
        => /\ paginated.status = "ok"
           /\ orderTermsOf(paginated.sql) = claimedSortTerms

\* three tokens: an unknown column, a known one and the id column
SortValueBuildsWithoutEmptyTokenWitness ==
    /\ sortedByRequest /\ lastOp = "Paginate"
    /\ sortTokens = << <<"+", "zzz">>, <<"-", "salary">>, <<"+", "id">> >>
    /\ id = <<"id">>
    /\ orderTermsOf(paginated.sql) = << <<"salary", " ", "DESC">>, <<"id">> >>

\* a sort value that ends with a comma: Paginate panicked
SortValueWithEmptyTokenPanics ==
    /\ sortedByRequest /\ lastOp = "Paginate"
    /\ sortTokens = << <<"+", "name">>, <<>> >>
    /\ paginated.status = "panic"

\* the column a term of the ORDER BY clause names
termColumn(t) == <<t[1]>>

\* no two terms of the clause are on the same column
noColumnTwice(terms) ==
    \A i, j \in 1..Len(terms) : i # j => termColumn(terms[i]) # termColumn(terms[j])

\* the terms of a sequence whose column no earlier term names
firstOccurrences(terms) ==
    Flatten([i \in 1..Len(terms) |->
        IF \E j \in 1..(i - 1) : termColumn(terms[j]) = termColumn(terms[i])
        THEN <<>> ELSE <<terms[i]>>])

\* C26: the ORDER BY clause never names a column twice; when the sort
\* parameter mentions a column more than once only its first occurrence is
\* kept in the clause.
C26_NoColumnTwice ==
    (lastOp = "Paginate" /\ paginated.status = "ok")
        => /\ noColumnTwice(orderTermsOf(paginated.sql))
           /\ sortedByRequest
                => orderTermsOf(paginated.sql) = firstOccurrences(claimedSortTerms)

\* C26 for the explicit options: the clause built from them names no column
\* twice.
NoColumnTwiceWithOptions ==
    (lastOp = "Paginate" /\ paginated.status = "ok" /\ keptOptions # <<>>)
        => noColumnTwice(orderTermsOf(paginated.sql))

\* the sort value +name,-name gave a clause with two terms on name
SortRepeatsColumn ==
    /\ sortedByRequest /\ lastOp = "Paginate"
    /\ sortTokens = << <<"+", "name">>, <<"-", "name">> >>
    /\ id = <<"id">>
    /\ orderTermsOf(paginated.sql)
         = << <<"name", " ", "ASC">>, <<"name", " ", "DESC">>, <<"id">> >>

(***************************************************************************)
(* Claims about the goroutines of Paginate, checked under SpecGoLive.      *)
(***************************************************************************)

\* Paginate has returned and no other call is in progress
returned == main = "idle" /\ lastOp = "Paginate"

\* no goroutine panicked, no channel carried more than one send, and a
\* call that returned received one send per channel, left no goroutine
\* behind and returned what the three builders give when run in sequence
joined ==
    /\ main # "crashed"
    /\ \A c \in DOMAIN sends : sends[c] <= 1
    /\ returned
         => /\ \A c \in DOMAIN sends : sends[c] = 1
            /\ \A g \in DOMAIN routines : routines[g] = "done"
            /\ chans = noValues
            /\ paginated = PaginateResult

\* no step of a call writes a field of the paginator
fieldsUntouched == UNCHANGED <<bufVars, sqlVars>>

\* C27: under every interleaving of the three builder goroutines each sends
\* exactly once on its channel, Paginate receives all three and returns, no
\* goroutine stays blocked, no field of the paginator is written, and the
\* statement and the arguments returned are those of the builders run one
\* after the other.
C27_ConcurrentPaginate ==
    /\ []joined
    /\ [][fieldsUntouched]_vars
    /\ (main # "idle") ~> (main = "idle")

\* the sort value of the request has an empty token
emptySortToken == createOrderByClause(parameters, cols, orderBy, id).panic

\* C27 for the requests whose sort value has no empty token.
ConcurrentPaginateWhenBuilt ==
    /\ [](~emptySortToken => joined)
    /\ [][fieldsUntouched]_vars
    /\ (~emptySortToken /\ main # "idle") ~> (main = "idle")

\* a call returned a statement with a WHERE clause and two arguments
ConcurrentPaginateWhenBuiltWitness ==
    /\ returned
    /\ Len(paginated.args) = 2
    /\ \A c \in DOMAIN sends : sends[c] = 1

\* the two later goroutines are blocked on their channels while the first
\* one is still building
BlockedOutOfOrder ==
    /\ main = "c1"
    /\ routines = [where |-> "running", pagination |-> "sending",
                   order |-> "sending"]

\* the goroutine of createOrderByClause panicked while the caller waited
\* for the WHERE clause
PanicWhileReceiving ==
    /\ main = "crashed"
    /\ routines.order = "panicked"
    /\ routines.where \in {"running", "sending"}

(***************************************************************************)
(* Claims about determinism, checked under SpecMaps.                       *)
(***************************************************************************)

\* the parameter lists extraction can give for the request of this
\* paginator, one per iteration order of the two maps
extractions == getParameters(cols, filters, requestURL(request))

\* what Paginate returns when extraction gave the list ps
paginateWith(ps) ==
    PaginateOf(dialect, cols, ps, predicates, pageNumber, pageSize, orderBy,
               id, name)

\* C28: for a fixed table, dialect and query string the WHERE clause and
\* the order of its arguments are the same on every run, whatever the
\* order in which the maps of getParameters are iterated, and on every
\* repeated Paginate call; Paginate changes no state of the paginator.
C28_Deterministic ==
    /\ [](\A ps \in extractions :
             /\ paginateWith(ps) = PaginateResult
             /\ lastOp = "Paginate" => paginated = paginateWith(ps))
    /\ [][lastOp' = "Paginate" => UNCHANGED <<bufVars, sqlVars>>]_vars

\* C28 witness: two columns are repeated with =, extraction can give two
\* different lists, and Paginate returned a statement with an IN fragment
\* per column.
C28_Witness ==
    /\ lastOp = "Paginate"
    /\ Cardinality(extractions) >= 2
    /\ Cardinality(duplicateKeys(extractParameters(cols, filters,
           [i \in 1..Len(request) |-> tokenText(request[i])]), eq)) = 2
    /\ countOf(paginated.sql, "IN") = 2
    /\ Len(paginated.args) = 3

(***************************************************************************)
(* Claims about the closed flag, checked under SpecClosed.                 *)
(***************************************************************************)

\* C29: closed implies started, an empty row queue and no pending
\* destinations, and once closed is true no GetRowPtrArgs, NextData, Scan,
\* Paginate or Response call makes it false again or adds a row.
C29_ClosedIsAbsorbing ==
    /\ [](closed => started /\ rows = <<>> /\ tmp = <<>>)
    /\ [][closed => closed' /\ rows' = <<>> /\ tmp' = <<>>]_vars

\* C29 witness: GetRowPtrArgs was called on a paginator that delivered all
\* its rows.
C29_Witness ==
    /\ closed
    /\ Len(delivered) = MaxRows
    /\ lastOp = "GetRowPtrArgs" /\ lastRet = "nil"
    /\ paginated.status = "ok"

(***************************************************************************)
(* Claims about the introspected names, checked under SpecCols.            *)
(***************************************************************************)

\* the fields of the table that carry tag t
fieldsTagged(t) ==
    {i \in 1..Len(table.fields) : hasTag(tagsOf(table.fields[i]), t)}

\* the names of the SELECT list
selectColumns == {cols[i] : i \in 1..Len(cols)}

namesConsistent ==
    /\ id \in selectColumns
    /\ \A i \in fieldsTagged(<<"id">>) : id = cols[i]
    /\ \A i \in 1..Len(filters) : filters[i] \in selectColumns

\* C30: after successful construction, for every table (including fields
\* that carry a col=<name> override) the id column used for ORDER BY is one
\* of the SELECT columns and equals the column name of the id-tagged field,
\* and every filterable name used for parameter matching is one of the
\* SELECT columns.
C30_NamesConsistent == built.err = "nil" => namesConsistent

\* the fields whose col tag names another column than their inferred name
overridingFields ==
    {i \in 1..Len(table.fields) :
        /\ colNamesFromTags(tagsOf(table.fields[i])) # <<>>
        /\ cols[i] # parseCamelCaseToSnakeLowerCase(table.fields[i].fieldName)}

\* The names are consistent when neither the id field nor a filterable
\* field overrides its inferred name.
NamesConsistentWithoutOverride ==
    (built.err = "nil"
     /\ overridingFields \cap (fieldsTagged(<<"id">>) \cup fieldsTagged(<<"filter">>)) = {})
        => namesConsistent

NamesConsistentWithoutOverrideWitness ==
    /\ built.err = "nil"
    /\ overridingFields = {}
    /\ colNamesFromTags(tagsOf(table.fields[1])) # <<>>
    /\ colNamesFromTags(tagsOf(table.fields[2])) # <<>>
    /\ parameters # <<>>
    /\ paginated.status = "ok"

\* the ORDER BY of a Paginate call names an id that is no column of the
\* SELECT list
OrderByNamesMissingColumn ==
    /\ lastOp = "Paginate" /\ paginated.status = "ok"
    /\ id = <<"id">>
    /\ cols[1] = <<"employee_id">>

\* a filterable field whose column is overridden is not filtered: the
\* request names the column, but the filterable name is the inferred one
\* and no parameter is extracted
FilterNamesMissingColumn ==
    /\ lastOp = "Paginate" /\ paginated.status = "ok"
    /\ cols[2] = <<"person_name">>
    /\ filters = << <<"name">> >>
    /\ request # <<>> /\ request[1].name = <<"person_name">>
    /\ parameters = <<>>
    /\ paginated.args = <<>>

====
